---- MODULE Spec2Model ----
(***************************************************************************)
(* A model of five parts of await-openai / async-claude:                   *)
(*   - process_messages (async-claude/src/messages/request.rs), the        *)
(*     conversation normalizer, run as a small step machine over one       *)
(*     input list (SpecNorm);                                              *)
(*   - ClaudeEventDataParser (await-openai/src/claude.rs), the streaming   *)
(*     translator, one action per kind of event (SpecParser and the        *)
(*     specifications that differ from it in the payloads they draw),      *)
(*     and two translators side by side (SpecTwo);                         *)
(*   - the conversion of an OpenAI request body into a Claude Request      *)
(*     (await-openai/src/claude.rs), applied to one body (SpecConvert);    *)
(*   - MessageContent::validate (async-claude/src/messages.rs), applied    *)
(*     to one message (SpecValidate);                                      *)
(*   - get_function_tool and its static cell (await-openai/src/tools.rs),  *)
(*     called a few times in a row (SpecFunctionTool).                     *)
(* Strings that the code inspects character by character (trim, trim_end,  *)
(* push, JSON parsing) are sequences of one-character strings; strings     *)
(* that are only compared or tested for emptiness are TLA+ strings.        *)
(***************************************************************************)
EXTENDS Integers, Sequences, FiniteSets, TLC

\* Longest input list handed to process_messages.
MaxMsgs == 3

--------------------------------------------------------------------------
(* Text helpers *)

\* char::is_whitespace, restricted to the characters the inputs use.
WhiteSpace == {" ", "\n", "\t"}

\* str::trim_end: drop the maximal suffix of whitespace.
RECURSIVE trim_end(_)
trim_end(s) ==
    IF s # <<>> /\ s[Len(s)] \in WhiteSpace
    THEN trim_end(SubSeq(s, 1, Len(s) - 1))
    ELSE s

\* str::trim: drop whitespace at both ends.
RECURSIVE trim_start(_)
trim_start(s) ==
    IF s # <<>> /\ s[1] \in WhiteSpace
    THEN trim_start(SubSeq(s, 2, Len(s)))
    ELSE s

trim(s) == trim_start(trim_end(s))

\* Option<T>: None is the empty sequence, Some(x) the one-element sequence.
None == <<>>
Some(x) == <<x>>

--------------------------------------------------------------------------
(* Content model: async-claude/src/messages.rs *)

TextBlock(t) == [type |-> "text", text |-> t]
ThinkingBlock(t, sig) == [type |-> "thinking", thinking |-> t, signature |-> sig]
ToolUseBlock(id, name, input) ==
    [type |-> "tool_use", id |-> id, name |-> name, input |-> input]
ImageBlock(media_type, data) ==
    [type |-> "image", media_type |-> media_type, data |-> data]
DocumentBlock(source, id) == [type |-> "document", source |-> source, id |-> id]
ToolResultBlock(tool_use_id, content) ==
    [type |-> "tool_result", tool_use_id |-> tool_use_id, content |-> content]
RedactedThinkingBlock(data) == [type |-> "redacted_thinking", data |-> data]

\* serde_json::Value, as far as the model needs it.
JsonNull == [t |-> "null"]
JsonNum(n) == [t |-> "num", n |-> n]
JsonStr(s) == [t |-> "str", s |-> s]
JsonObj(members) == [t |-> "obj", members |-> members]

\* serde_json::Value::is_object
is_object(v) == v.t = "obj"

\* ContentBlock::is_empty
ContentBlock_is_empty(b) ==
    CASE b.type = "text" -> trim(b.text) = <<>>
      [] b.type = "tool_use" -> b.id = "" \/ b.name = "" \/ ~is_object(b.input)
      [] b.type = "thinking" -> trim(b.thinking) = <<>>
      [] b.type = "image" -> trim(b.media_type) = <<>> \/ trim(b.data) = <<>>
      [] b.type = "document" -> b.source = None \/ b.id = None
      [] b.type = "tool_result" -> b.tool_use_id = "" \/ trim(b.content) = <<>>
      [] b.type = "redacted_thinking" -> b.data = ""

TextContent(t) == [kind |-> "Text", text |-> t]
BlocksContent(bs) == [kind |-> "Blocks", blocks |-> bs]

\* MessageContent::is_all_empty
MessageContent_is_all_empty(c) ==
    IF c.kind = "Text"
    THEN trim(c.text) = <<>>
    ELSE \A i \in 1..Len(c.blocks) : ContentBlock_is_empty(c.blocks[i])

\* Message::is_all_empty
is_all_empty(m) == MessageContent_is_all_empty(m.content)

Message(role, content) == [role |-> role, content |-> content]

Role == {"user", "assistant"}

--------------------------------------------------------------------------
(* process_messages: async-claude/src/messages/request.rs *)

\* Vec::retain(|b| !b.is_empty()) and iter().filter(|v| !v.is_empty())
RECURSIVE retain_non_empty(_)
retain_non_empty(bs) ==
    IF bs = <<>> THEN <<>>
    ELSE IF ContentBlock_is_empty(bs[1])
         THEN retain_non_empty(Tail(bs))
         ELSE <<bs[1]>> \o retain_non_empty(Tail(bs))

\* combine_content with the Text+Text arm pushing no '\n' between the texts.
combine_content_no_newline(prev, curr) ==
    CASE prev.kind = "Text" /\ curr.kind = "Text" ->
            TextContent(prev.text \o curr.text)
      [] prev.kind = "Blocks" /\ curr.kind = "Blocks" ->
            BlocksContent(retain_non_empty(prev.blocks) \o retain_non_empty(curr.blocks))
      [] prev.kind = "Blocks" /\ curr.kind = "Text" ->
            BlocksContent(Append(retain_non_empty(prev.blocks), TextBlock(curr.text)))
      [] prev.kind = "Text" /\ curr.kind = "Blocks" ->
            BlocksContent(<<TextBlock(prev.text)>> \o retain_non_empty(curr.blocks))

\* combine_content with the Blocks+Text arm missing its prev.retain(..).
combine_content_no_retain(prev, curr) ==
    CASE prev.kind = "Text" /\ curr.kind = "Text" ->
            TextContent(prev.text \o <<"\n">> \o curr.text)
      [] prev.kind = "Blocks" /\ curr.kind = "Blocks" ->
            BlocksContent(retain_non_empty(prev.blocks) \o retain_non_empty(curr.blocks))
      [] prev.kind = "Blocks" /\ curr.kind = "Text" ->
            BlocksContent(Append(prev.blocks, TextBlock(curr.text)))
      [] prev.kind = "Text" /\ curr.kind = "Blocks" ->
            BlocksContent(<<TextBlock(prev.text)>> \o retain_non_empty(curr.blocks))

\* The match on (combined_message.content, message.content), lines 103-128.
combine_content(prev, curr) ==
    CASE prev.kind = "Text" /\ curr.kind = "Text" ->
            TextContent(prev.text \o <<"\n">> \o curr.text)
      [] prev.kind = "Blocks" /\ curr.kind = "Blocks" ->
            BlocksContent(retain_non_empty(prev.blocks) \o retain_non_empty(curr.blocks))
      [] prev.kind = "Blocks" /\ curr.kind = "Text" ->
            BlocksContent(Append(retain_non_empty(prev.blocks), TextBlock(curr.text)))
      [] prev.kind = "Text" /\ curr.kind = "Blocks" ->
            BlocksContent(<<TextBlock(prev.text)>> \o retain_non_empty(curr.blocks))

\* Vec::pop, its result dropped.
pop(v) == IF v = <<>> THEN v ELSE SubSeq(v, 1, Len(v) - 1)

\* loop_body with a same-role message taking the place of the previous
\* one instead of being combined with it.
loop_body_keeps_latest(st, message) ==
    IF is_all_empty(message)
    THEN st
    ELSE IF st.prev_message # None /\ st.prev_message[1].role = message.role
         THEN [filtered |-> Append(pop(st.filtered), message),
               prev_message |-> Some(message)]
         ELSE [filtered |-> Append(st.filtered, message),
               prev_message |-> Some(message)]

\* One iteration of the for loop, lines 95-137, on the loop's two locals.
loop_body(st, message) ==
    IF is_all_empty(message)
    THEN st
    ELSE IF st.prev_message # None /\ st.prev_message[1].role = message.role
         THEN LET combined_message ==
                      Message(st.prev_message[1].role,
                              combine_content(st.prev_message[1].content, message.content))
              IN  [filtered |-> Append(pop(st.filtered), combined_message),
                   prev_message |-> Some(combined_message)]
         ELSE [filtered |-> Append(st.filtered, message),
               prev_message |-> Some(message)]

\* The synthetic first message, lines 144-147.
PlaceholderText ==
    <<"S","t","a","r","t","i","n","g"," ","t","h","e"," ",
      "c","o","n","v","e","r","s","a","t","i","o","n",".",".",".">>

Placeholder == Message("user", TextContent(PlaceholderText))

\* fixup_first keyed on the first kept message instead of the first input
\* message.
fixup_first_on_filtered(msgs, flt) ==
    IF flt # <<>> /\ flt[1].role = "assistant"
    THEN <<Placeholder>> \o flt
    ELSE flt

\* Lines 139-150: keyed on the first message of the input, not of filtered.
fixup_first(msgs, flt) ==
    IF msgs # <<>> /\ msgs[1].role = "assistant"
    THEN <<Placeholder>> \o flt
    ELSE flt

\* Lines 157-168: trim_end on the bare text or on every Text block.
trim_content(c) ==
    IF c.kind = "Text"
    THEN TextContent(trim_end(c.text))
    ELSE BlocksContent([i \in 1..Len(c.blocks) |->
             IF c.blocks[i].type = "text"
             THEN TextBlock(trim_end(c.blocks[i].text))
             ELSE c.blocks[i]])

\* fixup_last trimming only the bare Text variant.
fixup_last_text_only(flt) ==
    IF flt # <<>> /\ flt[Len(flt)].role = "assistant"
           /\ flt[Len(flt)].content.kind = "Text"
    THEN [flt EXCEPT ![Len(flt)] =
              Message("assistant", trim_content(flt[Len(flt)].content))]
    ELSE flt

\* Lines 152-170.
fixup_last(flt) ==
    IF flt # <<>> /\ flt[Len(flt)].role = "assistant"
    THEN [flt EXCEPT ![Len(flt)] =
              Message("assistant", trim_content(flt[Len(flt)].content))]
    ELSE flt

\* The whole for loop, from the state before element i.
RECURSIVE loop_from(_, _, _)
loop_from(msgs, i, st) ==
    IF i > Len(msgs) THEN st
    ELSE loop_from(msgs, i + 1, loop_body(st, msgs[i]))

LoopStart == [filtered |-> <<>>, prev_message |-> None]

\* process_messages as a function of its argument.
process_messages(msgs) ==
    IF msgs = <<>>
    THEN <<>>
    ELSE fixup_last(fixup_first(msgs, loop_from(msgs, 1, LoopStart).filtered))

--------------------------------------------------------------------------
(* Inputs of process_messages *)

ToolUseOk == ToolUseBlock("toolu_1", "get_weather", JsonObj(<<>>))
ToolUseNoId == ToolUseBlock("", "get_weather", JsonObj(<<>>))

\* Contents: blank and non-blank text, text with trailing whitespace, an
\* empty block list, all-empty block lists, and block lists mixing empty and
\* non-empty blocks of every type.
Contents ==
    { TextContent(<<" ">>),
      TextContent(<<"a">>),
      TextContent(<<"b", " ">>),
      BlocksContent(<<>>),
      BlocksContent(<<ToolResultBlock("", <<"r">>), ToolUseNoId>>),
      BlocksContent(<<TextBlock(<<" ">>), ToolUseOk>>),
      BlocksContent(<<TextBlock(<<"c", " ">>), TextBlock(<<>>)>>),
      BlocksContent(<<ThinkingBlock(<<"t", " ">>, None), TextBlock(<<"d", "\n">>)>>),
      BlocksContent(<<ImageBlock(<<"i">>, <<" ">>), RedactedThinkingBlock("x"),
                      DocumentBlock(None, Some("doc_1"))>>) }

Messages == { Message(r, c) : r \in Role, c \in Contents }

RECURSIVE SeqsUpTo(_, _)
SeqsUpTo(S, n) ==
    IF n = 0 THEN { <<>> }
    ELSE LET shorter == SeqsUpTo(S, n - 1)
         IN  shorter \cup { Append(s, x) : s \in { t \in shorter : Len(t) = n - 1 }, x \in S }

--------------------------------------------------------------------------
(* serde_json::from_str::<Value>, on the JSON the argument fragments can
   spell: objects, strings without escapes, unsigned integers, whitespace.
   Any other character is a syntax error. *)

JsonWs == {" ", "\n", "\t", "\r"}

DigitValue(c) ==
    CASE c = "0" -> 0 [] c = "1" -> 1 [] c = "2" -> 2 [] c = "3" -> 3
      [] c = "4" -> 4 [] c = "5" -> 5 [] c = "6" -> 6 [] c = "7" -> 7
      [] c = "8" -> 8 [] c = "9" -> 9

JsonDigits == {"0", "1", "2", "3", "4", "5", "6", "7", "8", "9"}

JsonFail == [ok |-> FALSE, val |-> JsonNull, pos |-> 0]
JsonOk(v, pos) == [ok |-> TRUE, val |-> v, pos |-> pos]

RECURSIVE json_skip_ws(_, _)
json_skip_ws(s, i) ==
    IF i <= Len(s) /\ s[i] \in JsonWs THEN json_skip_ws(s, i + 1) ELSE i

\* The string whose opening quote is at i - 1; j scans for the closing one.
RECURSIVE json_string(_, _, _)
json_string(s, i, j) ==
    IF j > Len(s) THEN JsonFail
    ELSE IF s[j] = "\"" THEN JsonOk(JsonStr(SubSeq(s, i, j - 1)), j + 1)
    ELSE IF s[j] \in {"\n", "\t", "\r", "\\"} THEN JsonFail
    ELSE json_string(s, i, j + 1)

\* The digits from i on, acc the number read so far.
RECURSIVE json_digits(_, _, _)
json_digits(s, i, acc) ==
    IF i <= Len(s) /\ s[i] \in JsonDigits
    THEN json_digits(s, i + 1, 10 * acc + DigitValue(s[i]))
    ELSE JsonOk(JsonNum(acc), i)

\* A leading 0 is a number of its own.
json_number(s, i) ==
    IF s[i] = "0" THEN JsonOk(JsonNum(0), i + 1) ELSE json_digits(s, i, 0)

\* serde_json::Map::insert: a later duplicate key replaces the earlier value.
json_insert(m, k, v) == [x \in (DOMAIN m) \cup {k} |-> IF x = k THEN v ELSE m[x]]

RECURSIVE json_value(_, _)
RECURSIVE json_members(_, _, _)

\* The members of an object from position i (past the whitespace), where a
\* key must start; m holds the members read so far.
json_members(s, i, m) ==
    IF i > Len(s) \/ s[i] # "\"" THEN JsonFail
    ELSE LET k == json_string(s, i + 1, i + 1)
         IN  IF ~k.ok THEN JsonFail
             ELSE LET c == json_skip_ws(s, k.pos)
                  IN  IF c > Len(s) \/ s[c] # ":" THEN JsonFail
                      ELSE LET v == json_value(s, c + 1)
                           IN  IF ~v.ok THEN JsonFail
                               ELSE LET e == json_skip_ws(s, v.pos)
                                        m2 == json_insert(m, k.val.s, v.val)
                                    IN  IF e > Len(s) THEN JsonFail
                                        ELSE IF s[e] = "}" THEN JsonOk(JsonObj(m2), e + 1)
                                        ELSE IF s[e] = ","
                                             THEN json_members(s, json_skip_ws(s, e + 1), m2)
                                        ELSE JsonFail

json_value(s, i0) ==
    LET i == json_skip_ws(s, i0)
    IN  IF i > Len(s) THEN JsonFail
        ELSE IF s[i] = "{"
             THEN LET j == json_skip_ws(s, i + 1)
                  IN  IF j <= Len(s) /\ s[j] = "}"
                      THEN JsonOk(JsonObj(<<>>), j + 1)
                      ELSE json_members(s, j, <<>>)
        ELSE IF s[i] = "\"" THEN json_string(s, i + 1, i + 1)
        ELSE IF s[i] \in JsonDigits THEN json_number(s, i)
        ELSE JsonFail

\* from_str: one value, then nothing but whitespace.
json_from_str(s) ==
    LET r == json_value(s, 1)
    IN  IF r.ok /\ json_skip_ws(s, r.pos) > Len(s)
        THEN [ok |-> TRUE, val |-> r.val]
        ELSE [ok |-> FALSE, val |-> JsonNull]

--------------------------------------------------------------------------
(* Stream events: async-claude/src/messages/stream_response.rs *)

ErrorEvent(error) == [type |-> "error", error |-> error]
MessageStartEvent(message) == [type |-> "message_start", message |-> message]
ContentBlockStartEvent(index, content_block) ==
    [type |-> "content_block_start", index |-> index, content_block |-> content_block]
PingEvent == [type |-> "ping"]
ContentBlockDeltaEvent(index, delta) ==
    [type |-> "content_block_delta", index |-> index, delta |-> delta]
ContentBlockStopEvent(index) == [type |-> "content_block_stop", index |-> index]
MessageDeltaEvent(delta, usage) ==
    [type |-> "message_delta", delta |-> delta, usage |-> usage]
MessageStopEvent == [type |-> "message_stop"]

TextDelta(text) == [type |-> "text_delta", text |-> text]
InputJsonDelta(partial_json) ==
    [type |-> "input_json_delta", partial_json |-> partial_json]
ThinkingDelta(thinking) == [type |-> "thinking_delta", thinking |-> thinking]
SignatureDelta(signature) == [type |-> "signature_delta", signature |-> signature]

\* impl Display for ErrorData
ErrorData_fmt(error) ==
    CASE error.type = "overloaded_error" -> <<"OverloadedError: ", error.message>>
      [] error.type = "internal_server_error" -> <<"InternalServerError: ", error.message>>
      [] error.type = "bad_request_error" -> <<"BadRequestError: ", error.message>>
      [] error.type = "unauthorized_error" -> <<"UnauthorizedError: ", error.message>>

\* The fields serde requires of each event type.
EventFields ==
    [error |-> {"type", "error"},
     message_start |-> {"type", "message"},
     content_block_start |-> {"type", "index", "content_block"},
     ping |-> {"type"},
     content_block_delta |-> {"type", "index", "delta"},
     content_block_stop |-> {"type", "index"},
     message_delta |-> {"type", "delta", "usage"},
     message_stop |-> {"type"}]

\* serde_json::from_str::<EventData> / from_value::<EventData>: the tag must
\* name a variant and the variant's fields must be there; other fields are
\* ignored.
EventData_from_str(d) ==
    IF d.type \in DOMAIN EventFields /\ EventFields[d.type] \subseteq DOMAIN d
    THEN Some([f \in EventFields[d.type] |-> d[f]])
    ELSE None

--------------------------------------------------------------------------
(* OpenaiEventDataParser: the accumulator ClaudeEventDataParser wraps. *)

OpenaiEventDataParser_default ==
    [id |-> "", model |-> "", content |-> <<>>, think_content |-> <<>>,
     tool_calls |-> <<>>, finish_reason |-> None, created |-> 0, object |-> ""]

update_id_if_empty(op, id) == IF op.id = "" THEN [op EXCEPT !.id = id] ELSE op
update_model_if_empty(op, model) ==
    IF op.model = "" THEN [op EXCEPT !.model = model] ELSE op
push_content(op, text) == [op EXCEPT !.content = @ \o text]
push_thinking(op, thinking) == [op EXCEPT !.think_content = @ \o thinking]
push_tool_call(op, tool_call) == [op EXCEPT !.tool_calls = Append(@, tool_call)]
set_finish_reason(op, finish_reason) == [op EXCEPT !.finish_reason = finish_reason]

--------------------------------------------------------------------------
(* ClaudeEventDataParser: await-openai/src/claude.rs *)

\* ToolCall::Function(ToolCallFunction { id, function: { name, arguments } })
ToolCallFunction(id, name, arguments) ==
    [id |-> id, function |-> [name |-> name, arguments |-> arguments]]

\* impl Default for ClaudeEventDataParser
ClaudeEventDataParser_default ==
    [usage |-> [prompt_tokens |-> 0, completion_tokens |-> 0, total_tokens |-> 0],
     parser |-> OpenaiEventDataParser_default,
     stop_reason |-> None,
     stop_sequence |-> None,
     tool_call |-> None,
     claude_tool_calls |-> <<>>,
     signature |-> None]

\* enum FinishReason
FinishReason == {"stop", "length", "tool_calls", "content_filter"}

\* FinishReason_from with a matched stop sequence reported as a filter hit.
FinishReason_from_sequence_filtered(reason) ==
    CASE reason = "end_turn" -> "stop"
      [] reason = "max_tokens" -> "length"
      [] reason = "stop_sequence" -> "content_filter"
      [] reason = "tool_use" -> "tool_calls"

\* impl From<StopReason> for FinishReason
FinishReason_from(reason) ==
    CASE reason = "end_turn" -> "stop"
      [] reason = "max_tokens" -> "length"
      [] reason = "stop_sequence" -> "stop"
      [] reason = "tool_use" -> "tool_calls"

StopReason == {"end_turn", "max_tokens", "stop_sequence", "tool_use"}

ChunkDone == [kind |-> "Done"]

\* ClaudeEventDataParser::chunk_with_choice
chunk_with_choice(self, index, text, reasoning, role, finish_reason) ==
    [kind |-> "Data",
     id |-> self.parser.id,
     choices |-> <<[index |-> index,
                    delta |-> [role |-> role, content |-> text,
                               reasoning |-> reasoning, tool_calls |-> None],
                    finish_reason |-> finish_reason,
                    logprobs |-> None]>>,
     created |-> self.parser.created,
     model |-> self.parser.model,
     system_fingerprint |-> "",
     service_tier |-> None,
     object |-> "chat.completion.chunk",
     usage |-> None]

\* Result<(Option<Chunk>, Option<ToolCall>), anyhow::Error>, with the parser
\* as the call leaves it.
Ok(self, chunk, tool_call) ==
    [self |-> self,
     ret |-> [ok |-> TRUE, chunk |-> chunk, tool_call |-> tool_call, error |-> None]]
Err(self, error) ==
    [self |-> self,
     ret |-> [ok |-> FALSE, chunk |-> None, tool_call |-> None, error |-> Some(error)]]

\* parse_error with the open tool call taken before the bail.
parse_error_takes_tool_call(self, data) ==
    Err([self EXCEPT !.tool_call = None],
        <<"Error from Claude API: ">> \o ErrorData_fmt(data.error))

\* EventData::Error, lines 180-182.
parse_error(self, data) ==
    Err(self, <<"Error from Claude API: ">> \o ErrorData_fmt(data.error))

\* Option<u32>::unwrap_or_default
unwrap_or_default(o) == IF o = None THEN 0 ELSE o[1]

\* parse_message_start with id and model taken from every MessageStart.
parse_message_start_overwrites(self, data) ==
    LET s1 == [self EXCEPT
                  !.parser.id = data.message.id,
                  !.parser.model = data.message.model,
                  !.usage.prompt_tokens =
                      unwrap_or_default(data.message.usage.input_tokens),
                  !.usage.completion_tokens = data.message.usage.output_tokens]
    IN  Ok(s1, Some(chunk_with_choice(s1, 0, None, None, Some("assistant"), None)), None)

\* EventData::MessageStart, lines 183-192.
parse_message_start(self, data) ==
    LET s1 == [self EXCEPT
                  !.parser = update_model_if_empty(
                                 update_id_if_empty(@, data.message.id),
                                 data.message.model),
                  !.usage.prompt_tokens =
                      unwrap_or_default(data.message.usage.input_tokens),
                  !.usage.completion_tokens = data.message.usage.output_tokens]
    IN  Ok(s1, Some(chunk_with_choice(s1, 0, None, None, Some("assistant"), None)), None)

\* parse_content_block_start with a chunk announcing the tool-use block.
parse_content_block_start_announces(self, data) ==
    IF data.content_block.type = "tool_use"
    THEN LET s1 == [self EXCEPT !.tool_call =
                       Some(ToolCallFunction(data.content_block.id,
                                             data.content_block.name, <<>>))]
         IN  Ok(s1, Some(chunk_with_choice(s1, data.index, None, None, None, None)), None)
    ELSE Ok(self, None, None)

\* EventData::ContentBlockStart, lines 193-212.
parse_content_block_start(self, data) ==
    IF data.content_block.type = "tool_use"
    THEN Ok([self EXCEPT !.tool_call =
                 Some(ToolCallFunction(data.content_block.id,
                                       data.content_block.name, <<>>))],
            None, None)
    ELSE Ok(self, None, None)

\* parse_ping with the open tool call abandoned.
parse_ping_abandons_tool_call(self, data) ==
    Ok([self EXCEPT !.tool_call = None], None, None)

\* EventData::Ping, line 213.
parse_ping(self, data) == Ok(self, None, None)

\* parse_text_delta with the chunk built from the whole buffer instead of
\* the fragment.
parse_text_delta_whole_buffer(self, data) ==
    LET s1 == [self EXCEPT !.parser = push_content(@, data.delta.text)]
    IN  Ok(s1,
           Some(chunk_with_choice(s1, data.index, Some(s1.parser.content),
                                  None, None, None)),
           None)

\* DeltaContentBlock::TextDelta, lines 215-221.
parse_text_delta(self, data) ==
    LET s1 == [self EXCEPT !.parser = push_content(@, data.delta.text)]
    IN  Ok(s1,
           Some(chunk_with_choice(s1, data.index, Some(data.delta.text),
                                  None, None, None)),
           None)

\* parse_input_json_delta with the fragment put in front of the arguments.
parse_input_json_delta_prepends(self, data) ==
    IF self.tool_call # None
    THEN Ok([self EXCEPT !.tool_call =
                 Some(ToolCallFunction(
                          self.tool_call[1].id,
                          self.tool_call[1].function.name,
                          data.delta.partial_json \o self.tool_call[1].function.arguments))],
            None, None)
    ELSE Ok(self, None, None)

\* DeltaContentBlock::InputJsonDelta, lines 222-234: the event's index is
\* not looked at.
parse_input_json_delta(self, data) ==
    IF self.tool_call # None
    THEN Ok([self EXCEPT !.tool_call =
                 Some(ToolCallFunction(
                          self.tool_call[1].id,
                          self.tool_call[1].function.name,
                          self.tool_call[1].function.arguments \o data.delta.partial_json))],
            None, None)
    ELSE Ok(self, None, None)

\* parse_thinking_delta with the fragment treated as visible text.
parse_thinking_delta_as_content(self, data) ==
    LET s1 == [self EXCEPT !.parser = push_content(@, data.delta.thinking)]
    IN  Ok(s1,
           Some(chunk_with_choice(s1, data.index, Some(data.delta.thinking), None,
                                  None, None)),
           None)

\* DeltaContentBlock::ThinkingDelta, lines 235-247.
parse_thinking_delta(self, data) ==
    LET s1 == [self EXCEPT !.parser = push_thinking(@, data.delta.thinking)]
    IN  Ok(s1,
           Some(chunk_with_choice(s1, data.index, None, Some(data.delta.thinking),
                                  None, None)),
           None)

\* parse_signature_delta with the first signature kept.
parse_signature_delta_keeps_first(self, data) ==
    Ok([self EXCEPT !.signature = IF @ = None THEN Some(data.delta.signature) ELSE @],
       None, None)

\* DeltaContentBlock::SignatureDelta, lines 248-251.
parse_signature_delta(self, data) ==
    Ok([self EXCEPT !.signature = Some(data.delta.signature)], None, None)

\* EventData::ContentBlockDelta, lines 214-252.
parse_content_block_delta(self, data) ==
    CASE data.delta.type = "text_delta" -> parse_text_delta(self, data)
      [] data.delta.type = "input_json_delta" -> parse_input_json_delta(self, data)
      [] data.delta.type = "thinking_delta" -> parse_thinking_delta(self, data)
      [] data.delta.type = "signature_delta" -> parse_signature_delta(self, data)

\* parse_content_block_stop with the accumulator left open after the call
\* was returned.
parse_content_block_stop_stays_open(self, data) ==
    IF self.tool_call # None
    THEN LET function == self.tool_call[1]
             tool_call == ToolCallFunction(function.id, function.function.name,
                                           function.function.arguments)
             obj == json_from_str(function.function.arguments)
             s1 == [self EXCEPT !.parser = push_tool_call(@, tool_call)]
             s2 == IF obj.ok
                   THEN [s1 EXCEPT !.claude_tool_calls =
                            Append(@, [id |-> function.id,
                                       name |-> function.function.name,
                                       input |-> obj.val])]
                   ELSE s1
         IN  Ok(s2, None, Some(tool_call))
    ELSE Ok(self, None, None)

\* parse_content_block_stop with a call whose arguments do not parse kept
\* in claude_tool_calls, its input null.
parse_content_block_stop_keeps_unparsed(self, data) ==
    IF self.tool_call # None
    THEN LET function == self.tool_call[1]
             tool_call == ToolCallFunction(function.id, function.function.name,
                                           function.function.arguments)
             obj == json_from_str(function.function.arguments)
             s1 == [self EXCEPT !.tool_call = None,
                                !.parser = push_tool_call(@, tool_call)]
             s2 == [s1 EXCEPT !.claude_tool_calls =
                       Append(@, [id |-> function.id,
                                  name |-> function.function.name,
                                  input |-> obj.val])]
         IN  Ok(s2, None, Some(tool_call))
    ELSE Ok(self, None, None)

\* EventData::ContentBlockStop, lines 253-272: the event's index is not
\* looked at.
parse_content_block_stop(self, data) ==
    IF self.tool_call # None
    THEN LET function == self.tool_call[1]
             tool_call == ToolCallFunction(function.id, function.function.name,
                                           function.function.arguments)
             obj == json_from_str(function.function.arguments)
             s1 == [self EXCEPT !.tool_call = None,
                                !.parser = push_tool_call(@, tool_call)]
             s2 == IF obj.ok
                   THEN [s1 EXCEPT !.claude_tool_calls =
                            Append(@, [id |-> function.id,
                                       name |-> function.function.name,
                                       input |-> obj.val])]
                   ELSE s1
         IN  Ok(s2, None, Some(tool_call))
    ELSE Ok(self, None, None)

\* parse_message_delta with the completion tokens replaced, not added to.
parse_message_delta_assigns(self, data) ==
    LET s1 == [self EXCEPT
                  !.usage.completion_tokens = data.usage.output_tokens,
                  !.parser = set_finish_reason(
                                 @, Some(FinishReason_from(data.delta.stop_reason))),
                  !.stop_reason = Some(data.delta.stop_reason)]
    IN  Ok(s1,
           Some(chunk_with_choice(s1, 0, None, None, None,
                                  Some(FinishReason_from(data.delta.stop_reason)))),
           None)

\* parse_message_delta with the stop reason kept once it is set.
parse_message_delta_first_wins(self, data) ==
    LET s1 == [self EXCEPT
                  !.usage.completion_tokens = @ + data.usage.output_tokens,
                  !.parser = set_finish_reason(
                                 @, Some(FinishReason_from(data.delta.stop_reason))),
                  !.stop_reason = IF @ = None THEN Some(data.delta.stop_reason) ELSE @]
    IN  Ok(s1,
           Some(chunk_with_choice(s1, 0, None, None, None,
                                  Some(FinishReason_from(data.delta.stop_reason)))),
           None)

\* EventData::MessageDelta, lines 273-288.  The token sums of the model
\* stay far below 2^32.
parse_message_delta(self, data) ==
    LET s1 == [self EXCEPT
                  !.usage.completion_tokens = @ + data.usage.output_tokens,
                  !.parser = set_finish_reason(
                                 @, Some(FinishReason_from(data.delta.stop_reason))),
                  !.stop_reason = Some(data.delta.stop_reason)]
    IN  Ok(s1,
           Some(chunk_with_choice(s1, 0, None, None, None,
                                  Some(FinishReason_from(data.delta.stop_reason)))),
           None)

\* parse_message_stop with the accumulator handed over and reset.
parse_message_stop_resets(self, data) ==
    Ok(ClaudeEventDataParser_default, Some(ChunkDone), None)

\* parse_message_stop returning nothing.
parse_message_stop_silent(self, data) == Ok(self, None, None)

\* EventData::MessageStop, line 289.
parse_message_stop(self, data) == Ok(self, Some(ChunkDone), None)

\* EventDataParser::parse, lines 175-291.
parse(self, data) ==
    CASE data.type = "error" -> parse_error(self, data)
      [] data.type = "message_start" -> parse_message_start(self, data)
      [] data.type = "content_block_start" -> parse_content_block_start(self, data)
      [] data.type = "ping" -> parse_ping(self, data)
      [] data.type = "content_block_delta" -> parse_content_block_delta(self, data)
      [] data.type = "content_block_stop" -> parse_content_block_stop(self, data)
      [] data.type = "message_delta" -> parse_message_delta(self, data)
      [] data.type = "message_stop" -> parse_message_stop(self, data)

\* ClaudeEventDataParser::parse_str and parse_value, lines 388-399: decode,
\* return the decoder's error, or hand the event to parse.
parse_str(self, d) ==
    LET payload == EventData_from_str(d)
    IN  IF payload = None
        THEN Err(self, <<"serde_json::Error">>)
        ELSE parse(self, payload[1])

\* The ToolUse blocks of claude_response, lines 321-329.
tool_use_blocks(calls) ==
    [i \in 1..Len(calls) |-> ToolUseBlock(calls[i].id, calls[i].name, calls[i].input)]

\* claude_response with the Text block put before the Thinking block.
claude_response_text_first(self) ==
    [id |-> self.parser.id,
     type |-> "message",
     role |-> "assistant",
     content |->
         (IF self.parser.content # <<>>
          THEN <<TextBlock(self.parser.content)>>
          ELSE <<>>)
         \o (IF self.parser.think_content # <<>>
             THEN <<ThinkingBlock(self.parser.think_content, self.signature)>>
             ELSE <<>>)
         \o tool_use_blocks(self.claude_tool_calls),
     model |-> self.parser.model,
     stop_reason |-> self.stop_reason,
     stop_sequence |-> None,
     usage |-> [input_tokens |-> Some(self.usage.prompt_tokens),
                output_tokens |-> self.usage.completion_tokens]]

\* ClaudeEventDataParser::claude_response, lines 308-344.
claude_response(self) ==
    [id |-> self.parser.id,
     type |-> "message",
     role |-> "assistant",
     content |->
         (IF self.parser.think_content # <<>>
          THEN <<ThinkingBlock(self.parser.think_content, self.signature)>>
          ELSE <<>>)
         \o (IF self.parser.content # <<>>
             THEN <<TextBlock(self.parser.content)>>
             ELSE <<>>)
         \o tool_use_blocks(self.claude_tool_calls),
     model |-> self.parser.model,
     stop_reason |-> self.stop_reason,
     stop_sequence |-> None,
     usage |-> [input_tokens |-> Some(self.usage.prompt_tokens),
                output_tokens |-> self.usage.completion_tokens]]

\* OpenaiEventDataParser::response: the unary response of the wrapped
\* accumulator, as far as the identity fields go; its usage is replaced by
\* the caller.
OpenaiEventDataParser_response(op) ==
    [id |-> op.id,
     object |-> op.object,
     created |-> op.created,
     model |-> op.model,
     usage |-> [prompt_tokens |-> 0, completion_tokens |-> 0, total_tokens |-> 0]]

\* ClaudeEventDataParser::response, lines 293-304.
response(self) ==
    LET s1 == [self EXCEPT !.parser.object = "chat.completion"]
        res == OpenaiEventDataParser_response(s1.parser)
    IN  [res EXCEPT !.usage =
             [prompt_tokens |-> s1.usage.prompt_tokens,
              completion_tokens |-> s1.usage.completion_tokens,
              total_tokens |-> s1.usage.prompt_tokens + s1.usage.completion_tokens]]

--------------------------------------------------------------------------
(* Inputs of the parser *)

\* Most events one parser consumes.
MaxEvents == 5

Usage(input_tokens, output_tokens) ==
    [input_tokens |-> input_tokens, output_tokens |-> output_tokens]

Events ==
    { ErrorEvent([type |-> "overloaded_error", message |-> "Overloaded"]),
      MessageStartEvent([id |-> "msg_1", model |-> "claude-3-7-sonnet",
                         usage |-> Usage(Some(25), 1)]),
      MessageStartEvent([id |-> "msg_2", model |-> "claude-3-opus",
                         usage |-> Usage(None, 2)]),
      ContentBlockStartEvent(0, TextBlock(<<>>)),
      ContentBlockStartEvent(1, ToolUseBlock("toolu_1", "get_weather", JsonObj(<<>>))),
      PingEvent,
      ContentBlockDeltaEvent(0, TextDelta(<<"H", "e", "l">>)),
      ContentBlockDeltaEvent(0, TextDelta(<<"l", "o">>)),
      ContentBlockDeltaEvent(1, InputJsonDelta(<<"{", "\"", "a", "\"", ":">>)),
      ContentBlockDeltaEvent(1, InputJsonDelta(<<"1", "}">>)),
      ContentBlockDeltaEvent(0, ThinkingDelta(<<"h", "m">>)),
      ContentBlockDeltaEvent(0, SignatureDelta("sig_1")),
      ContentBlockStopEvent(0),
      ContentBlockStopEvent(1),
      MessageDeltaEvent([stop_reason |-> "end_turn", stop_sequence |-> None],
                        Usage(None, 3)),
      MessageStopEvent }

\* What parse_str is handed: the events, an event with a field serde
\* ignores, an unknown tag, and an event with a field missing.
Payloads ==
    Events \cup
    { [type |-> "ping", extra |-> "x"],
      [type |-> "no_such_event"],
      [type |-> "content_block_stop"] }

\* Payloads every pool shares: a vendor error, a ping, an unknown tag.
Noise ==
    { ErrorEvent([type |-> "overloaded_error", message |-> "Overloaded"]),
      PingEvent,
      [type |-> "no_such_event"] }

\* A stream with a text block at index 0 and tool-use blocks at indices 1
\* and 2; the fragments of block 1 spell {"a":1}, the fragment of block 2
\* spells {}.
ToolPayloads ==
    Noise \cup
    { MessageStartEvent([id |-> "msg_1", model |-> "claude-3-7-sonnet",
                         usage |-> Usage(Some(25), 1)]),
      ContentBlockStartEvent(0, TextBlock(<<>>)),
      ContentBlockStartEvent(1, ToolUseBlock("toolu_1", "get_weather", JsonObj(<<>>))),
      ContentBlockStartEvent(2, ToolUseBlock("toolu_2", "get_time", JsonObj(<<>>))),
      ContentBlockDeltaEvent(1, InputJsonDelta(<<"{", "\"", "a", "\"", ":">>)),
      ContentBlockDeltaEvent(1, InputJsonDelta(<<"1", "}">>)),
      ContentBlockDeltaEvent(2, InputJsonDelta(<<"{", "}">>)),
      ContentBlockStopEvent(0),
      ContentBlockStopEvent(1),
      ContentBlockStopEvent(2),
      MessageDeltaEvent([stop_reason |-> "tool_use", stop_sequence |-> None],
                        Usage(None, 3)),
      MessageStopEvent }

\* A stream of message-level events: two MessageStart events that differ in
\* id, model and usage, one MessageDelta for every stop reason, each with
\* its own token count, and one text block.
MessagePayloads ==
    Noise \cup
    { MessageStartEvent([id |-> "msg_1", model |-> "claude-3-7-sonnet",
                         usage |-> Usage(Some(25), 1)]),
      MessageStartEvent([id |-> "msg_2", model |-> "claude-3-opus",
                         usage |-> Usage(None, 2)]),
      ContentBlockStartEvent(0, TextBlock(<<>>)),
      ContentBlockDeltaEvent(0, TextDelta(<<"H", "e", "l">>)),
      ContentBlockStopEvent(0),
      MessageDeltaEvent([stop_reason |-> "end_turn", stop_sequence |-> None],
                        Usage(None, 3)),
      MessageDeltaEvent([stop_reason |-> "max_tokens", stop_sequence |-> None],
                        Usage(None, 4)),
      MessageDeltaEvent([stop_reason |-> "stop_sequence", stop_sequence |-> Some("END")],
                        Usage(None, 0)),
      MessageDeltaEvent([stop_reason |-> "tool_use", stop_sequence |-> None],
                        Usage(Some(7), 6)),
      MessageStopEvent }

\* A stream that fills every part of the response's content: a block start
\* of every type, reasoning in two fragments, two signatures, text, and one
\* tool call.
ContentPayloads ==
    Noise \cup
    { MessageStartEvent([id |-> "msg_1", model |-> "claude-3-7-sonnet",
                         usage |-> Usage(Some(25), 1)]),
      ContentBlockStartEvent(0, ThinkingBlock(<<>>, None)),
      ContentBlockStartEvent(1, TextBlock(<<>>)),
      ContentBlockStartEvent(2, ToolUseBlock("toolu_1", "get_weather", JsonObj(<<>>))),
      ContentBlockStartEvent(3, RedactedThinkingBlock("x")),
      ContentBlockDeltaEvent(0, ThinkingDelta(<<"h", "m">>)),
      ContentBlockDeltaEvent(0, ThinkingDelta(<<"m", "!">>)),
      ContentBlockDeltaEvent(0, SignatureDelta("sig_1")),
      ContentBlockDeltaEvent(0, SignatureDelta("sig_2")),
      ContentBlockDeltaEvent(1, TextDelta(<<"H", "i">>)),
      ContentBlockDeltaEvent(2, InputJsonDelta(<<"{", "}">>)),
      ContentBlockStopEvent(2),
      MessageDeltaEvent([stop_reason |-> "end_turn", stop_sequence |-> None],
                        Usage(None, 3)),
      MessageStopEvent }

\* A stream whose blocks arrive in an order that is not the order of the
\* response: tool-use blocks at indices 0 and 4, text at indices 1 and 3,
\* reasoning at index 2.
OrderPayloads ==
    Noise \cup
    { MessageStartEvent([id |-> "msg_1", model |-> "claude-3-7-sonnet",
                         usage |-> Usage(Some(25), 1)]),
      ContentBlockStartEvent(0, ToolUseBlock("toolu_1", "get_weather", JsonObj(<<>>))),
      ContentBlockStartEvent(4, ToolUseBlock("toolu_2", "get_time", JsonObj(<<>>))),
      ContentBlockDeltaEvent(0, InputJsonDelta(<<"{", "}">>)),
      ContentBlockDeltaEvent(1, TextDelta(<<"a">>)),
      ContentBlockDeltaEvent(3, TextDelta(<<"b">>)),
      ContentBlockDeltaEvent(2, ThinkingDelta(<<"h", "m">>)),
      ContentBlockStopEvent(0),
      MessageDeltaEvent([stop_reason |-> "tool_use", stop_sequence |-> None],
                        Usage(None, 3)),
      MessageStopEvent }

--------------------------------------------------------------------------
(* What the events consumed so far spell, read off the events and the
   values parse returned, never off the parser's fields. *)

SeenNothing ==
    [open |-> <<>>,           \* block index -> tool-use block being streamed
     returned |-> <<>>,       \* the tool calls parse returned, in order
     first_start |-> None,    \* id and model of the first MessageStart
     start_usage |-> None,    \* usage of the latest MessageStart
     delta_tokens |-> 0,      \* output_tokens of the MessageDeltas after it
     last_stop |-> None,      \* stop_reason of the latest MessageDelta
     thinking |-> <<>>,       \* the ThinkingDelta texts, concatenated
     signature |-> None,      \* signature of the latest SignatureDelta
     stray_stop |-> FALSE]    \* a ContentBlockStop named an index with no open
                              \* tool-use block

\* f with index i mapped to v, and f without index i.
MapPut(f, i, v) == [x \in (DOMAIN f) \cup {i} |-> IF x = i THEN v ELSE f[x]]
MapDrop(f, i) == [x \in (DOMAIN f) \ {i} |-> f[x]]

\* s after event e.
ObserveEvent(s, e) ==
    CASE e.type = "message_start" ->
            [s EXCEPT !.first_start =
                          IF @ = None
                          THEN Some([id |-> e.message.id, model |-> e.message.model])
                          ELSE @,
                      !.start_usage = Some(e.message.usage),
                      !.delta_tokens = 0]
      [] e.type = "content_block_start" ->
            IF e.content_block.type = "tool_use"
            THEN [s EXCEPT !.open = MapPut(@, e.index,
                                           [id |-> e.content_block.id,
                                            name |-> e.content_block.name,
                                            fragments |-> <<>>])]
            ELSE s
      [] e.type = "content_block_delta" ->
            (CASE e.delta.type = "input_json_delta" ->
                    IF e.index \in DOMAIN s.open
                    THEN [s EXCEPT !.open[e.index].fragments = @ \o e.delta.partial_json]
                    ELSE s
               [] e.delta.type = "thinking_delta" ->
                    [s EXCEPT !.thinking = @ \o e.delta.thinking]
               [] e.delta.type = "signature_delta" ->
                    [s EXCEPT !.signature = Some(e.delta.signature)]
               [] OTHER -> s)
      [] e.type = "content_block_stop" ->
            [s EXCEPT !.open = MapDrop(@, e.index),
                      !.stray_stop = @ \/ e.index \notin DOMAIN s.open]
      [] e.type = "message_delta" ->
            [s EXCEPT !.last_stop = Some(e.delta.stop_reason),
                      !.delta_tokens = @ + e.usage.output_tokens]
      [] OTHER -> s

\* s after event e was answered with r.
Observe(s, e, r) ==
    LET s1 == ObserveEvent(s, e)
    IN  IF r.tool_call # None
        THEN [s1 EXCEPT !.returned = Append(@, r.tool_call[1])]
        ELSE s1

--------------------------------------------------------------------------
(* State *)

VARIABLES
    messages,       \* the argument of process_messages
    pc,             \* "loop", "last", "done"
    idx,            \* next element of messages the for loop visits
    filtered,       \* the local filtered, the result at "done"
    prev_message,   \* the local prev_message
    merged,         \* filtered as the for loop left it
    p,              \* one ClaudeEventDataParser
    ret,            \* what its last call returned
    event,          \* the event of its last call
    n,              \* how many calls it has served
    text_in,        \* the TextDelta texts consumed so far, concatenated
    chunk_out,      \* the content of the chunks returned for them, concatenated
    seg,            \* the tool-use block being streamed, as the events spell it
    pool,           \* the payloads this parser's stream is drawn from
    seen,           \* what the events consumed so far spell
    instances,      \* two ClaudeEventDataParser values, named A and B
    fed,            \* the payloads each of the two has been handed, in order
    answers,        \* what each of the two returned, in order
    input,          \* the argument of a conversion or validation
    output,         \* its result, None until it has run
    FUNCTION_TOOL,  \* the static OnceLock of get_function_tool
    requested,      \* the arguments of the calls of get_function_tool so far
    handed          \* what each of these calls returned

normVars == <<messages, pc, idx, filtered, prev_message, merged>>

parserVars == <<p, ret, event, n, text_in, chunk_out, seg, pool, seen>>

twoVars == <<instances, fed, answers>>

fnVars == <<input, output, FUNCTION_TOOL, requested, handed>>

vars == <<normVars, parserVars, twoVars, fnVars>>

NoCall == [type |-> "none"]

NoRet == [ok |-> TRUE, chunk |-> None, tool_call |-> None, error |-> None]

\* ClaudeEventDataParser::default(), nothing consumed yet.
ParserFresh ==
    /\ p = ClaudeEventDataParser_default
    /\ ret = NoRet
    /\ event = NoCall
    /\ n = 0
    /\ text_in = <<>>
    /\ chunk_out = <<>>
    /\ seg = None
    /\ seen = SeenNothing

\* Two instances from ClaudeEventDataParser::default(), nothing consumed.
TwoFresh ==
    /\ instances = [A |-> ClaudeEventDataParser_default,
                    B |-> ClaudeEventDataParser_default]
    /\ fed = [A |-> <<>>, B |-> <<>>]
    /\ answers = [A |-> <<>>, B |-> <<>>]

\* The OnceLock not yet set, get_function_tool not yet called.
ToolsFresh ==
    /\ FUNCTION_TOOL = None
    /\ requested = <<>>
    /\ handed = <<>>

\* No conversion or validation under way, no tool asked for.
FnIdle ==
    /\ input = None
    /\ output = None
    /\ ToolsFresh

\* No call of process_messages under way.
NormIdle ==
    /\ messages = <<>>
    /\ pc = "done"
    /\ idx = 1
    /\ filtered = <<>>
    /\ prev_message = None
    /\ merged = <<>>

--------------------------------------------------------------------------
(* The normalizer as a step machine *)

InitNorm ==
    /\ messages \in SeqsUpTo(Messages, MaxMsgs)
    /\ pc = "loop"
    /\ idx = 1
    /\ filtered = <<>>
    /\ prev_message = None
    /\ merged = <<>>
    /\ ParserFresh
    /\ TwoFresh
    /\ FnIdle
    /\ pool = {}

\* Lines 90-92: the early return on an empty input.
ReturnEmpty ==
    /\ pc = "loop"
    /\ messages = <<>>
    /\ pc' = "done"
    /\ UNCHANGED <<messages, idx, filtered, prev_message, merged, parserVars, twoVars, fnVars>>

\* Lines 95-137: one iteration of the for loop.
LoopIter ==
    /\ pc = "loop"
    /\ idx <= Len(messages)
    /\ LET st == loop_body([filtered |-> filtered, prev_message |-> prev_message],
                           messages[idx])
       IN  /\ filtered' = st.filtered
           /\ prev_message' = st.prev_message
    /\ idx' = idx + 1
    /\ UNCHANGED <<messages, pc, merged, parserVars, twoVars, fnVars>>

\* Lines 139-150, once the loop is over.
FixupFirst ==
    /\ pc = "loop"
    /\ messages # <<>>
    /\ idx > Len(messages)
    /\ merged' = filtered
    /\ filtered' = fixup_first(messages, filtered)
    /\ pc' = "last"
    /\ UNCHANGED <<messages, idx, prev_message, parserVars, twoVars, fnVars>>

\* Lines 152-172: the trailing trim, and the return.
FixupLast ==
    /\ pc = "last"
    /\ filtered' = fixup_last(filtered)
    /\ pc' = "done"
    /\ UNCHANGED <<messages, idx, prev_message, merged, parserVars, twoVars, fnVars>>

NextNorm == ReturnEmpty \/ LoopIter \/ FixupFirst \/ FixupLast

SpecNorm == InitNorm /\ [][NextNorm]_vars

\* The step machine computes process_messages.
MachineIsFunction == pc = "done" => filtered = process_messages(messages)

--------------------------------------------------------------------------
(* The parser as a state machine: one action per kind of event *)

InitParser ==
    /\ NormIdle
    /\ ParserFresh
    /\ TwoFresh
    /\ FnIdle
    /\ pool = Payloads

\* What a call's event is remembered as.
Consumed(d) ==
    IF EventData_from_str(d) = None
    THEN [type |-> "undecodable"]
    ELSE EventData_from_str(d)[1]

IsDelta(e, kind) == e.type = "content_block_delta" /\ e.delta.type = kind

\* One call parse_str(d) on the parser, r its outcome.
Call(d, r) ==
    LET e == Consumed(d)
    IN  /\ n < MaxEvents
        /\ p' = r.self
        /\ ret' = r.ret
        /\ event' = e
        /\ n' = n + 1
        /\ text_in' = IF IsDelta(e, "text_delta") THEN text_in \o e.delta.text
                      ELSE text_in
        /\ chunk_out' =
               IF /\ IsDelta(e, "text_delta")
                  /\ r.ret.chunk # None
                  /\ r.ret.chunk[1].kind = "Data"
                  /\ r.ret.chunk[1].choices[1].delta.content # None
               THEN chunk_out \o r.ret.chunk[1].choices[1].delta.content[1]
               ELSE chunk_out
        /\ seg' =
               IF e.type = "content_block_start" /\ e.content_block.type = "tool_use"
               THEN Some([id |-> e.content_block.id,
                          name |-> e.content_block.name,
                          fragments |-> <<>>,
                          returned_early |-> r.ret.tool_call # None])
               ELSE IF IsDelta(e, "input_json_delta") /\ seg # None
               THEN Some([seg[1] EXCEPT
                             !.fragments = @ \o e.delta.partial_json,
                             !.returned_early = @ \/ r.ret.tool_call # None])
               ELSE None
        /\ seen' = Observe(seen, e, r.ret)
        /\ UNCHANGED <<pool, normVars, twoVars, fnVars>>

\* parse_str on a payload that decodes to no event.
OnUndecodable ==
    \E d \in pool :
        /\ EventData_from_str(d) = None
        /\ Call(d, parse_str(p, d))

\* d decodes to an event of this type.
Decodes(d, type) == EventData_from_str(d) # None /\ d.type = type

OnError ==
    \E d \in pool :
        /\ Decodes(d, "error")
        /\ Call(d, parse_str(p, d))

OnMessageStart ==
    \E d \in pool :
        /\ Decodes(d, "message_start")
        /\ Call(d, parse_str(p, d))

OnContentBlockStart ==
    \E d \in pool :
        /\ Decodes(d, "content_block_start")
        /\ Call(d, parse_str(p, d))

OnPing ==
    \E d \in pool :
        /\ Decodes(d, "ping")
        /\ Call(d, parse_str(p, d))

OnContentBlockDelta ==
    \E d \in pool :
        /\ Decodes(d, "content_block_delta")
        /\ Call(d, parse_str(p, d))

OnContentBlockStop ==
    \E d \in pool :
        /\ Decodes(d, "content_block_stop")
        /\ Call(d, parse_str(p, d))

OnMessageDelta ==
    \E d \in pool :
        /\ Decodes(d, "message_delta")
        /\ Call(d, parse_str(p, d))

OnMessageStop ==
    \E d \in pool :
        /\ Decodes(d, "message_stop")
        /\ Call(d, parse_str(p, d))

NextParser ==
    \/ OnUndecodable
    \/ OnError
    \/ OnMessageStart
    \/ OnContentBlockStart
    \/ OnPing
    \/ OnContentBlockDelta
    \/ OnContentBlockStop
    \/ OnMessageDelta
    \/ OnMessageStop

SpecParser == InitParser /\ [][NextParser]_vars

\* The same parser on the stream with two tool-use blocks.
InitTools ==
    /\ NormIdle
    /\ ParserFresh
    /\ TwoFresh
    /\ FnIdle
    /\ pool = ToolPayloads

SpecTools == InitTools /\ [][NextParser]_vars

\* The same parser on the stream of message-level events.
InitMessage ==
    /\ NormIdle
    /\ ParserFresh
    /\ TwoFresh
    /\ FnIdle
    /\ pool = MessagePayloads

SpecMessage == InitMessage /\ [][NextParser]_vars

\* The same parser on the stream that fills the response's content.
InitContent ==
    /\ NormIdle
    /\ ParserFresh
    /\ TwoFresh
    /\ FnIdle
    /\ pool = ContentPayloads

SpecContent == InitContent /\ [][NextParser]_vars

\* The same parser on the stream with blocks out of the response's order.
InitOrder ==
    /\ NormIdle
    /\ ParserFresh
    /\ TwoFresh
    /\ FnIdle
    /\ pool = OrderPayloads

SpecOrder == InitOrder /\ [][NextParser]_vars

--------------------------------------------------------------------------
(* Two parsers side by side: each parse call takes &mut self of one of them *)

\* Most calls the two instances serve together.
MaxCalls == 4

\* What either instance may be handed.
TwoPayloads ==
    { MessageStartEvent([id |-> "msg_1", model |-> "claude-3-7-sonnet",
                         usage |-> Usage(Some(25), 1)]),
      ContentBlockStartEvent(1, ToolUseBlock("toolu_1", "get_weather", JsonObj(<<>>))),
      ContentBlockStartEvent(1, ToolUseBlock("toolu_2", "get_time", JsonObj(<<>>))),
      ContentBlockDeltaEvent(1, InputJsonDelta(<<"{", "}">>)),
      ContentBlockDeltaEvent(0, TextDelta(<<"a">>)),
      ContentBlockStopEvent(1) }

\* parse_on with the open tool call kept in one slot that both instances
\* read and write.
parse_on_shared_tool_call(insts, who, d) ==
    LET r == parse_str(insts[who], d)
    IN  [instances |-> [w \in DOMAIN insts |->
                           IF w = who THEN r.self
                           ELSE [insts[w] EXCEPT !.tool_call = r.self.tool_call]],
         ret |-> r.ret]

\* parse_str(&mut self, ..) on the instance named who: every field of the
\* struct is owned by it, so only that instance is written.
parse_on(insts, who, d) ==
    LET r == parse_str(insts[who], d)
    IN  [instances |-> [insts EXCEPT ![who] = r.self], ret |-> r.ret]

\* One call on instance who.
ParseOn(who) ==
    \E d \in TwoPayloads :
        LET r == parse_on(instances, who, d)
        IN  /\ Len(fed.A) + Len(fed.B) < MaxCalls
            /\ instances' = r.instances
            /\ fed' = [fed EXCEPT ![who] = Append(@, d)]
            /\ answers' = [answers EXCEPT ![who] = Append(@, r.ret)]
            /\ UNCHANGED <<normVars, parserVars, fnVars>>

ParseA == ParseOn("A")

ParseB == ParseOn("B")

InitTwo ==
    /\ NormIdle
    /\ ParserFresh
    /\ TwoFresh
    /\ FnIdle
    /\ pool = {}

NextTwo == ParseA \/ ParseB

SpecTwo == InitTwo /\ [][NextTwo]_vars

--------------------------------------------------------------------------
(* Vocabulary of the normalizer's properties, computed from the input alone *)

IsKept(m) == ~is_all_empty(m)

\* The messages the loop does not drop, in input order.
Kept(ms) == SelectSeq(ms, IsKept)

\* The maximal runs of consecutive same-role messages of s, in order.
RECURSIVE Runs(_)
Runs(s) ==
    IF s = <<>> THEN <<>>
    ELSE LET rest == Runs(Tail(s))
         IN  IF rest # <<>> /\ rest[1][1].role = s[1].role
             THEN <<(<<s[1]>> \o rest[1])>> \o Tail(rest)
             ELSE <<(<<s[1]>>)>> \o rest

\* The texts of a run of Text messages with one newline between neighbours.
RECURSIVE JoinNl(_)
JoinNl(run) ==
    IF Len(run) = 1 THEN run[1].content.text
    ELSE run[1].content.text \o <<"\n">> \o JoinNl(Tail(run))

AllText(run) == \A i \in 1..Len(run) : run[i].content.kind = "Text"

Last(s) == s[Len(s)]

EndsInWhiteSpace(t) == t # <<>> /\ t[Len(t)] \in WhiteSpace

\* The texts at the Text positions of a content: the bare text, or the text
\* of each Text block.
TextPositions(c) ==
    IF c.kind = "Text" THEN {c.text}
    ELSE { c.blocks[i].text : i \in { k \in 1..Len(c.blocks) : c.blocks[k].type = "text" } }

NonEmptyBlock(b) == ~ContentBlock_is_empty(b)

\* The four conversation invariants.
NonEmptyConversation(out) == out # <<>>
StartsWithUser(out) == out # <<>> => out[1].role = "user"
Alternates(out) == \A i \in 1..(Len(out) - 1) : out[i].role # out[i + 1].role
LastAssistantTrimmed(out) ==
    (out # <<>> /\ Last(out).role = "assistant")
        => \A t \in TextPositions(Last(out).content) : ~EndsInWhiteSpace(t)

WellFormed(out) ==
    /\ NonEmptyConversation(out)
    /\ StartsWithUser(out)
    /\ Alternates(out)
    /\ LastAssistantTrimmed(out)

--------------------------------------------------------------------------
(* Claims about process_messages *)

\* C1: for every input with at least one non-empty message the output is
\* non-empty, starts with role user, alternates roles, and a final assistant
\* message has no Text position ending in whitespace.
C1_OutputWellFormed ==
    (pc = "done" /\ \E i \in 1..Len(messages) : IsKept(messages[i]))
        => WellFormed(filtered)

\* C2: process_messages is idempotent: normalizing its own output returns
\* that output unchanged.
C2_Idempotent == pc = "done" => process_messages(filtered) = filtered

\* Idempotence does hold on every output that is a well-formed conversation:
\* C2 fails only where C1 does.
IdempotentWhenWellFormed ==
    (pc = "done" /\ WellFormed(filtered)) => process_messages(filtered) = filtered

\* C6: if every input message is empty, the output is the empty list,
\* whatever the roles.
C6_AllEmptyGivesEmpty ==
    (pc = "done" /\ \A i \in 1..Len(messages) : ~IsKept(messages[i]))
        => filtered = <<>>

MergeIter ==
    /\ pc = "loop"
    /\ idx <= Len(messages)
    /\ IsKept(messages[idx])
    /\ filtered # <<>>
    /\ Last(filtered).role = messages[idx].role

\* What C8 says a merge with at least one Blocks side produces.
BlocksMergeOf(first, second) ==
    CASE first.kind = "Blocks" /\ second.kind = "Blocks" ->
            SelectSeq(first.blocks, NonEmptyBlock) \o SelectSeq(second.blocks, NonEmptyBlock)
      [] first.kind = "Blocks" /\ second.kind = "Text" ->
            SelectSeq(first.blocks, NonEmptyBlock) \o <<TextBlock(second.text)>>
      [] first.kind = "Text" /\ second.kind = "Blocks" ->
            <<TextBlock(first.text)>> \o SelectSeq(second.blocks, NonEmptyBlock)

\* C8: merging two consecutive kept same-role messages of which at least one
\* has Blocks content leaves a single Blocks message in their place:
\* Blocks+Blocks is the first's non-empty blocks then the second's;
\* Blocks+Text is the first's non-empty blocks then one Text block with the
\* second's text; Text+Blocks is one Text block with the first's text then
\* the second's non-empty blocks.
C8_BlocksMerge ==
    [][ (MergeIter /\ (Last(filtered).content.kind = "Blocks"
                         \/ messages[idx].content.kind = "Blocks"))
            => /\ Len(filtered') = Len(filtered)
               /\ SubSeq(filtered', 1, Len(filtered) - 1)
                      = SubSeq(filtered, 1, Len(filtered) - 1)
               /\ Last(filtered') =
                      Message(messages[idx].role,
                              BlocksContent(BlocksMergeOf(Last(filtered).content,
                                                          messages[idx].content))) ]_vars

\* A merge with a Blocks side has just happened and dropped an empty block.
C8_Witness ==
    /\ pc = "loop"
    /\ idx >= 3
    /\ IsKept(messages[idx - 1])
    /\ IsKept(messages[idx - 2])
    /\ messages[idx - 1].role = messages[idx - 2].role
    /\ messages[idx - 2].content.kind = "Blocks"
    /\ messages[idx - 1].content.kind = "Text"
    /\ \E i \in 1..Len(messages[idx - 2].content.blocks) :
           ContentBlock_is_empty(messages[idx - 2].content.blocks[i])
    /\ Len(filtered) = 1
    /\ filtered[1].content.kind = "Blocks"
    /\ Last(filtered[1].content.blocks) = TextBlock(messages[idx - 1].content.text)

\* C9: exactly one synthetic user message with the placeholder text is
\* prepended if and only if the first message of the original input has
\* role assistant; when that first message is non-empty, the output begins
\* with the synthetic message followed by an assistant message.
C9_PlaceholderIffFirstAssistant ==
    pc = "done" =>
        LET runs == Len(Runs(Kept(messages)))
            prepended == Len(filtered) = runs + 1 /\ filtered[1] = Placeholder
        IN  /\ prepended <=> (messages # <<>> /\ messages[1].role = "assistant")
            /\ ~prepended => Len(filtered) = runs
            /\ (messages # <<>> /\ messages[1].role = "assistant" /\ IsKept(messages[1]))
                   => /\ Len(filtered) >= 2
                      /\ filtered[1] = Placeholder
                      /\ filtered[2].role = "assistant"

C9_Witness ==
    /\ pc = "done"
    /\ messages # <<>>
    /\ messages[1].role = "assistant"
    /\ IsKept(messages[1])
    /\ Len(filtered) = 3
    /\ filtered[1] = Placeholder

\* after is before with its maximal whitespace suffix removed.
IsTrimEndOf(before, after) ==
    /\ Len(after) <= Len(before)
    /\ after = SubSeq(before, 1, Len(after))
    /\ \A i \in (Len(after) + 1)..Len(before) : before[i] \in WhiteSpace
    /\ ~EndsInWhiteSpace(after)

\* after is before with the trailing whitespace removed at every Text
\* position and nothing else changed.
IsTrimmedContent(before, after) ==
    /\ after.kind = before.kind
    /\ before.kind = "Text" => IsTrimEndOf(before.text, after.text)
    /\ before.kind = "Blocks" =>
           /\ Len(after.blocks) = Len(before.blocks)
           /\ \A i \in 1..Len(before.blocks) :
                  IF before.blocks[i].type = "text"
                  THEN /\ after.blocks[i].type = "text"
                       /\ IsTrimEndOf(before.blocks[i].text, after.blocks[i].text)
                  ELSE after.blocks[i] = before.blocks[i]

\* C10: when the last output message has role assistant, it is the last
\* message the merge loop produced with the trailing whitespace removed from
\* its bare text or from each of its Text blocks, and it is still not
\* all-empty.
C10_LastAssistantTrimmedNonEmpty ==
    (pc = "done" /\ filtered # <<>> /\ Last(filtered).role = "assistant")
        => /\ merged # <<>>
           /\ Last(merged).role = "assistant"
           /\ IsTrimmedContent(Last(merged).content, Last(filtered).content)
           /\ ~is_all_empty(Last(filtered))

\* The trim removed whitespace from a Text block of a Blocks message.
C10_Witness ==
    /\ pc = "done"
    /\ filtered # <<>>
    /\ Last(filtered).role = "assistant"
    /\ Last(filtered).content.kind = "Blocks"
    /\ Last(filtered) # Last(merged)
    /\ \E i \in 1..Len(Last(filtered).content.blocks) :
           Last(filtered).content.blocks[i] = TextBlock(<<>>)

--------------------------------------------------------------------------
(* Claims about ClaudeEventDataParser *)

\* The Text blocks of a response's content, in order.
IsTextBlock(b) == b.type = "text"
IsToolUseBlock(b) == b.type = "tool_use"
TextBlocksOf(resp) == SelectSeq(resp.content, IsTextBlock)
ToolUsesOf(resp) == SelectSeq(resp.content, IsToolUseBlock)

\* C3: the text of the Text block of claude_response is the concatenation,
\* in arrival order, of the text of every TextDelta consumed (with no Text
\* block when that is empty), and it is also the concatenation of the
\* content fields of the chunks returned for those events.
C3_TextIsConcatenation ==
    /\ text_in = <<>> => TextBlocksOf(claude_response(p)) = <<>>
    /\ text_in # <<>> => TextBlocksOf(claude_response(p)) = <<TextBlock(text_in)>>
    /\ chunk_out = text_in

\* "Hel" then "lo" were consumed, in that order, among other events.
C3_Witness ==
    /\ text_in = <<"H", "e", "l", "l", "o">>
    /\ chunk_out = <<"H", "e", "l", "l", "o">>
    /\ event.type = "message_delta"
    /\ TextBlocksOf(claude_response(p)) = <<TextBlock(<<"H", "e", "l", "l", "o">>)>>

\* This step serves a call whose payload decoded to an event of this type.
Serves(type) == n' = n + 1 /\ event'.type = type

\* C4: when a ContentBlockStart with ToolUse{id, name} was followed by
\* InputJsonDelta fragments only and their concatenation is valid JSON, the
\* ContentBlockStop that comes next returns the tool call with that id and
\* name and the concatenation, in arrival order, as arguments; no earlier
\* event of the block returned a tool call; and claude_response gains
\* exactly one ToolUse block, with that id and name and the parsed
\* arguments as input.
C4_ToolCallAssembled ==
    [][ (Serves("content_block_stop") /\ seg # None
             /\ json_from_str(seg[1].fragments).ok)
            => /\ ret'.ok
               /\ ret'.tool_call =
                      Some(ToolCallFunction(seg[1].id, seg[1].name, seg[1].fragments))
               /\ ~seg[1].returned_early
               /\ ToolUsesOf(claude_response(p')) =
                      Append(ToolUsesOf(claude_response(p)),
                             ToolUseBlock(seg[1].id, seg[1].name,
                                          json_from_str(seg[1].fragments).val)) ]_vars

\* {"a": and 1} arrived in this order and the block was closed: the call was
\* returned with arguments {"a":1} and the response holds input {a: 1}.
C4_Witness ==
    /\ event.type = "content_block_stop"
    /\ ret.tool_call =
           Some(ToolCallFunction("toolu_1", "get_weather",
                                 <<"{", "\"", "a", "\"", ":", "1", "}">>))
    /\ ToolUsesOf(claude_response(p)) =
           <<ToolUseBlock("toolu_1", "get_weather",
                          JsonObj(json_insert(<<>>, <<"a">>, JsonNum(1))))>>

\* C5: a call that returns an error (an Error event, or a payload that
\* decodes to no event) returns no chunk and no tool call and leaves the
\* parser exactly as it was, so claude_response is what it was before.
C5_ErrorLeavesStateAlone ==
    [][ (n' = n + 1 /\ event'.type \in {"error", "undecodable"})
            => /\ ~ret'.ok
               /\ ret'.chunk = None
               /\ ret'.tool_call = None
               /\ p' = p
               /\ claude_response(p') = claude_response(p) ]_vars

\* An Error event arrived with text accumulated and a tool call open, and
\* both are still there.
C5_Witness ==
    /\ event.type = "error"
    /\ ~ret.ok
    /\ p.tool_call # None
    /\ p.tool_call[1].function.arguments # <<>>
    /\ p.parser.content # <<>>
    /\ TextBlocksOf(claude_response(p)) # <<>>

\* C11: an InputJsonDelta with index i appends its fragment only to the
\* tool call opened by the ContentBlockStart with index i: while every
\* ContentBlockStop so far named an open tool-use block, the
\* ContentBlockStop of an open block returns the tool call with that
\* block's id and name and, as arguments, the concatenation of exactly the
\* fragments that carried the block's index, also when two blocks are open
\* and their deltas interleave.
C11_FragmentsByIndex ==
    [][ (Serves("content_block_stop") /\ ~seen.stray_stop
             /\ event'.index \in DOMAIN seen.open)
            => ret'.tool_call =
                   Some(ToolCallFunction(seen.open[event'.index].id,
                                         seen.open[event'.index].name,
                                         seen.open[event'.index].fragments)) ]_vars

\* C12: a ContentBlockStop whose index names no open tool-use block (the
\* index of a text or thinking block) returns no tool call and leaves the
\* tool call that is open at another index open.
C12_StopOnlyAtItsIndex ==
    [][ (Serves("content_block_stop") /\ event'.index \notin DOMAIN seen.open)
            => /\ ret'.tool_call = None
               /\ p'.tool_call = p.tool_call ]_vars

\* The ToolUse blocks of the calls whose arguments are valid JSON, in order.
RECURSIVE ParsedToolUses(_)
ParsedToolUses(calls) ==
    IF calls = <<>> THEN <<>>
    ELSE LET obj == json_from_str(calls[1].function.arguments)
         IN  (IF obj.ok
              THEN <<ToolUseBlock(calls[1].id, calls[1].function.name, obj.val)>>
              ELSE <<>>)
             \o ParsedToolUses(Tail(calls))

\* The call this step returned has arguments that are not valid JSON.
ReturnsUnparsed ==
    /\ ret'.tool_call # None
    /\ ~json_from_str(ret'.tool_call[1].function.arguments).ok

\* C13: when ContentBlockStop closes a tool call whose concatenated
\* arguments are not valid JSON, parse returns Ok with no chunk and no
\* error, claude_response gains no ToolUse block, and the ToolUse blocks of
\* claude_response are at all times those of the calls returned so far
\* whose arguments parsed, in order: the calls before and after the dropped
\* one are unaffected.
C13_UnparsedCallDropped ==
    [][ /\ (Serves("content_block_stop") /\ ReturnsUnparsed)
               => /\ ret'.ok
                  /\ ret'.chunk = None
                  /\ ret'.error = None
                  /\ ToolUsesOf(claude_response(p')) = ToolUsesOf(claude_response(p))
        /\ ToolUsesOf(claude_response(p')) = ParsedToolUses(seen'.returned) ]_vars

\* A call with arguments {} was completed, then a call was closed with no
\* arguments at all: the response holds the first one only.
C13_Witness ==
    /\ event.type = "content_block_stop"
    /\ ret.ok
    /\ ret.tool_call # None
    /\ ~json_from_str(ret.tool_call[1].function.arguments).ok
    /\ Len(seen.returned) = 2
    /\ json_from_str(seen.returned[1].function.arguments).ok
    /\ ToolUsesOf(claude_response(p)) =
           <<ToolUseBlock(seen.returned[1].id, seen.returned[1].function.name,
                          JsonObj(<<>>))>>

C15_UsageSums ==
    seen.start_usage # None =>
        LET start == seen.start_usage[1]
            prompt == IF start.input_tokens = None THEN 0 ELSE start.input_tokens[1]
            completion == start.output_tokens + seen.delta_tokens
        IN  /\ claude_response(p).usage =
                   [input_tokens |-> Some(prompt), output_tokens |-> completion]
            /\ response(p).usage =
                   [prompt_tokens |-> prompt,
                    completion_tokens |-> completion,
                    total_tokens |-> prompt + completion]

\* MessageStart with 25 input and 1 output tokens, then MessageDelta events
\* with 3 and 4 output tokens: 25 prompt, 8 completion, 33 in total.
C15_Witness ==
    /\ seen.start_usage = Some(Usage(Some(25), 1))
    /\ seen.delta_tokens = 7
    /\ event.type = "message_delta"
    /\ n = 3
    /\ response(p).usage.completion_tokens = 8
    /\ response(p).usage.total_tokens = 33

MappingTable ==
    [end_turn |-> "stop", max_tokens |-> "length",
     stop_sequence |-> "stop", tool_use |-> "tool_calls"]

\* C17: the conversion from StopReason to FinishReason is total and fixed:
\* it has a value for every StopReason, EndTurn gives Stop, MaxTokens
\* Length, StopSequence Stop and ToolUse ToolCalls, never ContentFilter;
\* the finish reason of the chunk every MessageDelta returns is that value.
C17_StopReasonMapping ==
    [][ Serves("message_delta")
            => /\ DOMAIN MappingTable = StopReason
               /\ \A r \in StopReason :
                      /\ FinishReason_from(r) \in FinishReason \ {"content_filter"}
                      /\ FinishReason_from(r) = MappingTable[r]
               /\ ret'.ok
               /\ ret'.chunk[1].choices[1].finish_reason =
                      Some(MappingTable[event'.delta.stop_reason]) ]_vars

\* A MessageDelta with stop_reason stop_sequence was answered with finish
\* reason stop, after one with max_tokens (4 tokens) answered with length.
C17_Witness ==
    /\ n = 2
    /\ seen.delta_tokens = 4
    /\ event.type = "message_delta"
    /\ event.delta.stop_reason = "stop_sequence"
    /\ ret.chunk[1].choices[1].finish_reason = Some("stop")

\* The usage the events consumed so far add up to.
UsageSoFar ==
    [input_tokens |->
         Some(IF seen.start_usage = None \/ seen.start_usage[1].input_tokens = None
              THEN 0
              ELSE seen.start_usage[1].input_tokens[1]),
     output_tokens |->
         (IF seen.start_usage = None THEN 0 ELSE seen.start_usage[1].output_tokens)
         + seen.delta_tokens]

IsThinkingBlock(b) == b.type = "thinking"
ThinkingBlocksOf(resp) == SelectSeq(resp.content, IsThinkingBlock)

C19_ContentBlocks ==
    LET resp == claude_response(p)
    IN  /\ (ThinkingBlocksOf(resp) # <<>>) <=> (seen.thinking # <<>>)
        /\ seen.thinking # <<>> =>
               ThinkingBlocksOf(resp) = <<ThinkingBlock(seen.thinking, seen.signature)>>
        /\ (TextBlocksOf(resp) # <<>>) <=> (text_in # <<>>)
        /\ text_in # <<>> => TextBlocksOf(resp) = <<TextBlock(text_in)>>
        /\ Len(ToolUsesOf(resp)) = Len(ParsedToolUses(seen.returned))
        /\ \A i \in 1..Len(ToolUsesOf(resp)) :
               ToolUsesOf(resp)[i] = ParsedToolUses(seen.returned)[i]
        /\ Len(resp.content) = Len(ThinkingBlocksOf(resp)) + Len(TextBlocksOf(resp))
                                   + Len(ToolUsesOf(resp))

\* Reasoning in two fragments, sig_1 replaced by sig_2, then text.
C19_Witness ==
    /\ seen.thinking = <<"h", "m", "m", "!">>
    /\ seen.signature = Some("sig_2")
    /\ p.signature = Some("sig_2")
    /\ n = 5
    /\ event = ContentBlockDeltaEvent(1, TextDelta(<<"H", "i">>))
    /\ claude_response(p).content =
           <<ThinkingBlock(<<"h", "m", "m", "!">>, Some("sig_2")),
             TextBlock(<<"H", "i">>)>>

\* This step serves a ContentBlockStart, SignatureDelta, InputJsonDelta or
\* ContentBlockStop.
ServesSilent ==
    /\ n' = n + 1
    /\ \/ event'.type \in {"content_block_start", "content_block_stop"}
       \/ IsDelta(event', "signature_delta")
       \/ IsDelta(event', "input_json_delta")

\* C20: ContentBlockStart (of a block of any type), SignatureDelta,
\* InputJsonDelta and ContentBlockStop events never return a chunk from
\* parse.
C20_NoChunk ==
    [][ ServesSilent => (ret'.ok /\ ret'.chunk = None) ]_vars

\* A tool-use block was started, fed a fragment and closed, each without a
\* chunk; the closing returned the call.
C20_Witness ==
    /\ event.type = "content_block_stop"
    /\ n = 3
    /\ ret.ok
    /\ ret.chunk = None
    /\ ret.tool_call = Some(ToolCallFunction("toolu_1", "get_weather", <<"{", "}">>))
    /\ chunk_out = <<>>

\* The chunk this step returned, when it returned a data chunk with one
\* choice.
ReturnsOneChoice ==
    /\ ret'.ok
    /\ ret'.tool_call = None
    /\ ret'.chunk # None
    /\ ret'.chunk[1].kind = "Data"
    /\ Len(ret'.chunk[1].choices) = 1

\* C21: a ThinkingDelta appends its fragment to the reasoning buffer and
\* changes nothing else, and returns a chunk whose reasoning is the fragment
\* and whose content is absent; a TextDelta appends its fragment to the
\* visible-text buffer and changes nothing else, and returns a chunk whose
\* content is the fragment and whose reasoning is absent; the chunk's
\* choice index is the event's block index.
C21_DeltaBuffers ==
    [][ /\ (n' = n + 1 /\ IsDelta(event', "thinking_delta"))
               => /\ p' = [p EXCEPT !.parser.think_content =
                                        @ \o event'.delta.thinking]
                  /\ ReturnsOneChoice
                  /\ ret'.chunk[1].choices[1].delta.reasoning =
                         Some(event'.delta.thinking)
                  /\ ret'.chunk[1].choices[1].delta.content = None
                  /\ ret'.chunk[1].choices[1].index = event'.index
        /\ (n' = n + 1 /\ IsDelta(event', "text_delta"))
               => /\ p' = [p EXCEPT !.parser.content = @ \o event'.delta.text]
                  /\ ReturnsOneChoice
                  /\ ret'.chunk[1].choices[1].delta.content =
                         Some(event'.delta.text)
                  /\ ret'.chunk[1].choices[1].delta.reasoning = None
                  /\ ret'.chunk[1].choices[1].index = event'.index ]_vars

\* Reasoning was consumed, then a TextDelta of block 1 was answered with a
\* chunk of choice index 1 carrying the text, and the reasoning buffer is
\* what it was.
C21_Witness ==
    /\ event = ContentBlockDeltaEvent(1, TextDelta(<<"H", "i">>))
    /\ ret.chunk # None
    /\ ret.chunk[1].choices[1].index = 1
    /\ ret.chunk[1].choices[1].delta.content = Some(<<"H", "i">>)
    /\ ret.chunk[1].choices[1].delta.reasoning = None
    /\ p.parser.think_content = <<"h", "m">>
    /\ seen.thinking = <<"h", "m">>
    /\ p.parser.content = <<"H", "i">>

\* C22: a Ping returns no chunk and no tool call and leaves every field of
\* the parser as it was, wherever it occurs in the stream.
C22_PingChangesNothing ==
    [][ Serves("ping")
            => /\ ret'.ok
               /\ ret'.chunk = None
               /\ ret'.tool_call = None
               /\ p' = p ]_vars

\* A Ping arrived after the first InputJsonDelta fragment of an open tool
\* call, and the fragment is still there.
C22_Witness ==
    /\ event.type = "ping"
    /\ ret = NoRet
    /\ p.tool_call =
           Some(ToolCallFunction("toolu_1", "get_weather",
                                 <<"{", "\"", "a", "\"", ":">>))

\* C23: a MessageStop makes parse return the Done chunk with no tool call,
\* and leaves the parser as it was.
C23_MessageStopDone ==
    [][ Serves("message_stop")
            => /\ ret'.ok
               /\ ret'.chunk = Some(ChunkDone)
               /\ ret'.tool_call = None
               /\ p' = p ]_vars

\* A MessageStop was answered with Done after a MessageStart and a
\* MessageDelta, which the parser still holds.
C23_Witness ==
    /\ event.type = "message_stop"
    /\ ret.chunk = Some(ChunkDone)
    /\ ret.tool_call = None
    /\ p.parser.id = "msg_2"
    /\ p.stop_reason = Some("max_tokens")
    /\ p.usage.completion_tokens = 6

\* C27: every tool call parse returns at a ContentBlockStop adds a ToolUse
\* block with the call's id and name to the response claude_response
\* builds, also when the call's arguments are the empty string.
C27_ReturnedCallInResponse ==
    [][ (Serves("content_block_stop") /\ ret'.tool_call # None)
            => /\ Len(ToolUsesOf(claude_response(p'))) =
                      Len(ToolUsesOf(claude_response(p))) + 1
               /\ Last(ToolUsesOf(claude_response(p'))).id = ret'.tool_call[1].id
               /\ Last(ToolUsesOf(claude_response(p'))).name =
                      ret'.tool_call[1].function.name ]_vars

\* C29: parse returns a tool call only at a ContentBlockStop that finds an
\* accumulator open, and that step closes it, so that a further
\* ContentBlockStop returns none; an accumulator is opened only by a
\* ContentBlockStart of a ToolUse block, hence at most one call is returned
\* per such start; and an InputJsonDelta or ContentBlockStop that finds no
\* accumulator open changes no state and returns nothing.
C29_OneCallPerStart ==
    [][ /\ (n' = n + 1 /\ ret'.tool_call # None)
               => /\ event'.type = "content_block_stop"
                  /\ p.tool_call # None
                  /\ p'.tool_call = None
        /\ (p.tool_call = None /\ p'.tool_call # None)
               => /\ event'.type = "content_block_start"
                  /\ event'.content_block.type = "tool_use"
        /\ (n' = n + 1 /\ p.tool_call = None
                /\ (event'.type = "content_block_stop"
                       \/ IsDelta(event', "input_json_delta")))
               => /\ p' = p
                  /\ ret'.ok
                  /\ ret'.chunk = None
                  /\ ret'.tool_call = None ]_vars

\* One ContentBlockStart, a ContentBlockStop that returned the call, and a
\* second ContentBlockStop that returned nothing.
C29_Witness ==
    /\ n = 3
    /\ event.type = "content_block_stop"
    /\ ret.ok
    /\ ret.tool_call = None
    /\ Len(seen.returned) = 1
    /\ p.tool_call = None

\* Where a block of this type stands in the response.
TypeRank(b) ==
    CASE b.type = "thinking" -> 1
      [] b.type = "text" -> 2
      [] b.type = "tool_use" -> 3

RECURSIVE AloneFrom(_, _, _, _)
AloneFrom(ds, i, self, rets) ==
    IF i > Len(ds) THEN [self |-> self, answers |-> rets]
    ELSE LET r == parse_str(self, ds[i])
         IN  AloneFrom(ds, i + 1, r.self, Append(rets, r.ret))

Alone(ds) == AloneFrom(ds, 1, ClaudeEventDataParser_default, <<>>)

--------------------------------------------------------------------------
(* impl From<OpenaiRequestBody> for Request: await-openai/src/claude.rs *)

\* Most messages of one request body.
MaxBodyMsgs == 3

\* str::starts_with
starts_with(s, prefix) ==
    Len(s) >= Len(prefix) /\ SubSeq(s, 1, Len(prefix)) = prefix

\* s.split(','): the pieces of s between its commas, in order.
RECURSIVE split_comma(_)
split_comma(s) ==
    IF \A i \in 1..Len(s) : s[i] # "," THEN <<s>>
    ELSE LET c == CHOOSE i \in 1..Len(s) :
                      s[i] = "," /\ \A j \in 1..(i - 1) : s[j] # ","
         IN  <<SubSeq(s, 1, c - 1)>> \o split_comma(SubSeq(s, c + 1, Len(s)))

\* The media types parse_mime_from_base64 knows.
ImageMimes ==
    { <<"i", "m", "a", "g", "e", "/", "j", "p", "e", "g">>,
      <<"i", "m", "a", "g", "e", "/", "p", "n", "g">>,
      <<"i", "m", "a", "g", "e", "/", "g", "i", "f">>,
      <<"i", "m", "a", "g", "e", "/", "w", "e", "b", "p">> }

\* "data:<mime>;base64", what arr[0] is matched against.
DataHead(mime) ==
    <<"d", "a", "t", "a", ":">> \o mime \o <<";", "b", "a", "s", "e", "6", "4">>

parse_mime_from_base64(s) ==
    LET arr == split_comma(s)
    IN  IF Len(arr) < 2 THEN None
        ELSE IF \E mime \in ImageMimes : arr[1] = DataHead(mime)
             THEN Some(CHOOSE mime \in ImageMimes : arr[1] = DataHead(mime))
             ELSE None

\* OpenAI messages and content parts (entity/create_chat_completion.rs).
\* A message is one variant of the enum Message, its payload under the
\* variant's name.
SystemMessage(content) == [role |-> "system", system |-> [content |-> content]]
UserMessage(content) == [role |-> "user", user |-> [content |-> content]]
AssistantMessage(content, tool_calls) ==
    [role |-> "assistant",
     assistant |-> [content |-> content, tool_calls |-> tool_calls]]
ToolMessage(content, tool_call_id) ==
    [role |-> "tool",
     tool |-> [content |-> content, tool_call_id |-> tool_call_id]]
ArrayContent(parts) == [kind |-> "Array", parts |-> parts]
TextContentPart(text) == [type |-> "text", text |-> text]
ImageContentPart(url) == [type |-> "image_url", url |-> url]

\* Lines 52-76: the blocks of a user message given as an array of parts.
RECURSIVE Request_from_parts(_)
Request_from_parts(parts) ==
    IF parts = <<>> THEN <<>>
    ELSE LET part == Head(parts)
             mime == parse_mime_from_base64(part.url)
         IN  (CASE part.type = "text" -> <<TextBlock(part.text)>>
                [] part.type = "image_url" ->
                     IF ~starts_with(part.url, <<"h", "t", "t", "p">>) /\ mime # None
                     THEN <<ImageBlock(mime[1], part.url)>>
                     ELSE <<>>)
             \o Request_from_parts(Tail(parts))

\* The loop over body.messages with an assistant message without content
\* carried over as an empty text.
RECURSIVE Request_from_messages_keeps_silent_assistant(_, _, _)
Request_from_messages_keeps_silent_assistant(ms, out, system_message) ==
    IF ms = <<>> THEN [messages |-> out, system_message |-> system_message]
    ELSE LET message == Head(ms)
         IN  CASE message.role = "system" ->
                    Request_from_messages_keeps_silent_assistant(
                        Tail(ms), out, Some(message.system.content))
               [] message.role = "user" ->
                    Request_from_messages_keeps_silent_assistant(Tail(ms),
                        Append(out,
                            Message("user",
                                IF message.user.content.kind = "Text"
                                THEN TextContent(message.user.content.text)
                                ELSE BlocksContent(
                                         Request_from_parts(message.user.content.parts)))),
                        system_message)
               [] message.role = "assistant" ->
                    Request_from_messages_keeps_silent_assistant(Tail(ms),
                        Append(out, Message("assistant",
                            TextContent(IF message.assistant.content # None
                                        THEN message.assistant.content[1] ELSE <<>>))),
                        system_message)
               [] OTHER ->
                    Request_from_messages_keeps_silent_assistant(
                        Tail(ms), out, system_message)

\* Lines 38-94: the loop over body.messages.
RECURSIVE Request_from_messages(_, _, _)
Request_from_messages(ms, out, system_message) ==
    IF ms = <<>> THEN [messages |-> out, system_message |-> system_message]
    ELSE LET message == Head(ms)
         IN  CASE message.role = "system" ->
                    Request_from_messages(Tail(ms), out, Some(message.system.content))
               [] message.role = "user" ->
                    Request_from_messages(Tail(ms),
                        Append(out,
                            Message("user",
                                IF message.user.content.kind = "Text"
                                THEN TextContent(message.user.content.text)
                                ELSE BlocksContent(
                                         Request_from_parts(message.user.content.parts)))),
                        system_message)
               [] message.role = "assistant" ->
                    Request_from_messages(Tail(ms),
                        IF message.assistant.content # None
                        THEN Append(out, Message("assistant",
                                                 TextContent(message.assistant.content[1])))
                        ELSE out,
                        system_message)
               [] OTHER -> Request_from_messages(Tail(ms), out, system_message)

\* Request::from(body)
Request_from(body) ==
    LET looped == Request_from_messages(body.messages, <<>>, None)
    IN  [model |-> body.model,
         stream |-> body.stream,
         temperature |-> body.temperature,
         top_p |-> body.top_p,
         max_tokens |-> IF body.max_tokens # None THEN body.max_tokens[1] ELSE 4000,
         system |-> IF looped.system_message # None
                    THEN Some([kind |-> "Text", text |-> looped.system_message[1]])
                    ELSE None,
         messages |-> looped.messages,
         stop_sequences |->
             IF body.stop = None THEN None
             ELSE IF body.stop[1].kind = "String"
                  THEN Some(<<body.stop[1].s>>)
                  ELSE Some(body.stop[1].ss)]

\* The messages a request body is built from: two system prompts, user
\* messages as a text, as parts with a link, a PNG and a BMP data URL, and
\* as a lone link, an assistant with and without content, a tool result.
OpenaiMessages ==
    LET HttpUrl == <<"h", "t", "t", "p", ":", "/", "/", "x", ",", "y">>
        PngUrl == DataHead(<<"i", "m", "a", "g", "e", "/", "p", "n", "g">>)
                      \o <<",", "i", "V">>
        BmpUrl == DataHead(<<"i", "m", "a", "g", "e", "/", "b", "m", "p">>)
                      \o <<",", "Q">>
    IN  { SystemMessage("Be brief."),
          SystemMessage("Be kind."),
          UserMessage(TextContent(<<"h", "i">>)),
          UserMessage(ArrayContent(<<TextContentPart(<<"s", "e", "e">>),
                                     ImageContentPart(HttpUrl),
                                     ImageContentPart(PngUrl),
                                     ImageContentPart(BmpUrl)>>)),
          UserMessage(ArrayContent(<<ImageContentPart(HttpUrl)>>)),
          AssistantMessage(Some(<<"o", "k">>), None),
          AssistantMessage(None, Some("call_1")),
          ToolMessage(<<"4", "2">>, "call_1") }

OpenaiRequestBodies ==
    [model : {"gpt-4"},
     stream : {None},
     temperature : {None},
     top_p : {None},
     max_tokens : {None, Some(300)},
     stop : {None, Some([kind |-> "String", s |-> "END"]),
             Some([kind |-> "Array", ss |-> <<"END", "STOP">>])},
     messages : SeqsUpTo(OpenaiMessages, MaxBodyMsgs)]

\* let got: Request = body.into();
Convert ==
    /\ input # None
    /\ output = None
    /\ output' = Some(Request_from(input[1]))
    /\ UNCHANGED <<input, FUNCTION_TOOL, requested, handed, normVars, parserVars, twoVars>>

InitConvert ==
    /\ NormIdle
    /\ ParserFresh
    /\ TwoFresh
    /\ pool = {}
    /\ ToolsFresh
    /\ output = None
    /\ \E body \in OpenaiRequestBodies : input = Some(body)

SpecConvert == InitConvert /\ [][Convert]_vars

\* The messages of ms that the conversion carries over: user messages and
\* assistant messages with content.
Carried(ms) ==
    SelectSeq(ms, LAMBDA m : \/ m.role = "user"
                             \/ (m.role = "assistant" /\ m.assistant.content # None))

\* The content of the last system message of ms, None when it has none.
LastSystem(ms) ==
    IF \E i \in 1..Len(ms) : ms[i].role = "system"
    THEN LET last == CHOOSE i \in 1..Len(ms) :
                         /\ ms[i].role = "system"
                         /\ \A j \in (i + 1)..Len(ms) : ms[j].role # "system"
         IN  Some(ms[last].system.content)
    ELSE None

\* C25: the converted request holds one message per user message and per
\* assistant message with content of the body, in the body's order and with
\* the same role and text (tool messages and assistant messages without
\* content are dropped); its system prompt is the content of the last
\* system message, if any; max_tokens is the given value, 4000 when none is
\* given; a single stop string becomes a one-element stop_sequences list.
C25_RequestConversion ==
    output # None =>
        LET body == input[1]
            got == output[1]
            kept == Carried(body.messages)
        IN  /\ Len(got.messages) = Len(kept)
            /\ \A i \in 1..Len(kept) :
                   /\ got.messages[i].role = kept[i].role
                   /\ kept[i].role = "assistant" =>
                          got.messages[i].content = TextContent(kept[i].assistant.content[1])
                   /\ (kept[i].role = "user" /\ kept[i].user.content.kind = "Text") =>
                          got.messages[i].content = TextContent(kept[i].user.content.text)
                   /\ (kept[i].role = "user" /\ kept[i].user.content.kind = "Array") =>
                          got.messages[i].content.kind = "Blocks"
            /\ got.system =
                   (IF LastSystem(body.messages) = None THEN None
                    ELSE Some([kind |-> "Text",
                               text |-> LastSystem(body.messages)[1]]))
            /\ got.max_tokens =
                   (IF body.max_tokens = None THEN 4000 ELSE body.max_tokens[1])
            /\ (body.stop # None /\ body.stop[1].kind = "String") =>
                   got.stop_sequences = Some(<<body.stop[1].s>>)
            /\ body.stop = None => got.stop_sequences = None

\* Two system messages around an assistant message without content, no
\* max_tokens, a single stop string: the second system message wins.
C25_Witness ==
    /\ input # None
    /\ input[1].messages = <<SystemMessage("Be brief."),
                             AssistantMessage(None, Some("call_1")),
                             SystemMessage("Be kind.")>>
    /\ input[1].max_tokens = None
    /\ input[1].stop = Some([kind |-> "String", s |-> "END"])
    /\ output # None
    /\ output[1].messages = <<>>
    /\ output[1].system = Some([kind |-> "Text", text |-> "Be kind."])
    /\ output[1].max_tokens = 4000
    /\ output[1].stop_sequences = Some(<<"END">>)

--------------------------------------------------------------------------
(* MessageContent::validate: async-claude/src/messages.rs *)

\* Most blocks of one validated message.
MaxBlocks == 3

\* validate reporting the last block that is neither Base nor RequestOnly.
MessageContent_validate_last_offender(self) ==
    IF self.kind = "Text" THEN [ok |-> TRUE]
    ELSE LET blocks == self.blocks
             loop[i \in 0..Len(blocks)] ==
                 IF i = 0 THEN [ok |-> TRUE]
                 ELSE IF blocks[i].type \notin {"text", "thinking", "tool_use",
                                                "image", "document", "tool_result"}
                      THEN [ok |-> FALSE, index |-> i - 1, block |-> blocks[i]]
                      ELSE loop[i - 1]
         IN  loop[Len(blocks)]

\* MessageContent::validate. Ok(()) is [ok |-> TRUE]; the Err string is kept
\* as the two values format! writes into it, the index i (counted from 0)
\* and the block.
MessageContent_validate(self) ==
    IF self.kind = "Text" THEN [ok |-> TRUE]
    ELSE LET blocks == self.blocks
             \* loop[i]: the rest of the for loop from the block at index i - 1
             loop[i \in 1..(Len(blocks) + 1)] ==
                 IF i > Len(blocks) THEN [ok |-> TRUE]
                 ELSE IF blocks[i].type \notin {"text", "thinking", "tool_use",
                                                "image", "document", "tool_result"}
                      THEN [ok |-> FALSE, index |-> i - 1, block |-> blocks[i]]
                      ELSE loop[i + 1]
         IN  loop[1]

\* One block of every variant, the redacted one in two forms.
ValidatedBlocks ==
    { TextBlock(<<"a">>),
      ThinkingBlock(<<"t">>, None),
      ToolUseOk,
      ImageBlock(<<"i">>, <<"d">>),
      DocumentBlock(Some("src"), Some("doc_1")),
      ToolResultBlock("toolu_1", <<"r">>),
      RedactedThinkingBlock("x"),
      RedactedThinkingBlock("") }

\* Message::validate, lines 25-27: self.content.validate()
Validate ==
    /\ input # None
    /\ output = None
    /\ output' = Some(MessageContent_validate(input[1].content))
    /\ UNCHANGED <<input, FUNCTION_TOOL, requested, handed, normVars, parserVars, twoVars>>

InitValidate ==
    /\ NormIdle
    /\ ParserFresh
    /\ TwoFresh
    /\ pool = {}
    /\ ToolsFresh
    /\ output = None
    /\ \E role \in Role :
       \E content \in {TextContent(<<"a">>), TextContent(<<>>)}
                      \cup {BlocksContent(bs) :
                                bs \in SeqsUpTo(ValidatedBlocks, MaxBlocks)} :
           input = Some(Message(role, content))

SpecValidate == InitValidate /\ [][Validate]_vars

--------------------------------------------------------------------------
(* process_messages: what becomes of the content *)

\* The content of ms[i..] as a flat sequence of items: a bare text counts
\* as one text item, a block list as its blocks. Each item carries its
\* role, whether it was a bare text, and whether it sits in a closing
\* Assistant message.
RECURSIVE ItemsFrom(_, _)
ItemsFrom(ms, i) ==
    IF i > Len(ms) THEN <<>>
    ELSE LET m == ms[i]
             closing == i = Len(ms) /\ m.role = "assistant"
         IN  (IF m.content.kind = "Text"
              THEN <<[role |-> m.role, item |-> TextBlock(m.content.text),
                      bare |-> TRUE, closing |-> closing]>>
              ELSE [j \in 1..Len(m.content.blocks) |->
                       [role |-> m.role, item |-> m.content.blocks[j],
                        bare |-> FALSE, closing |-> closing]])
             \o ItemsFrom(ms, i + 1)

\* The items that are not empty.
NonEmptyItems(ms) ==
    SelectSeq(ItemsFrom(ms, 1), LAMBDA it : ~ContentBlock_is_empty(it.item))

\* The texts of text items, joined by newlines.
RECURSIVE JoinItems(_)
JoinItems(items) ==
    IF Len(items) = 1 THEN items[1].item.text
    ELSE items[1].item.text \o <<"\n">> \o JoinItems(Tail(items))

\* outs is ins, item by item, but for runs of bare texts of one role joined
\* by newlines and for the trailing trim of texts in a closing Assistant
\* message.
RECURSIVE Preserved(_, _)
Preserved(ins, outs) ==
    IF outs = <<>> THEN ins = <<>>
    ELSE \E k \in 1..Len(ins) :
             /\ \A i \in 1..k : ins[i].role = outs[1].role
             /\ k > 1 => \A i \in 1..k : ins[i].bare
             /\ LET want == IF k = 1 THEN ins[1].item
                            ELSE TextBlock(JoinItems(SubSeq(ins, 1, k)))
                IN  outs[1].item =
                        (IF outs[1].closing /\ want.type = "text"
                         THEN TextBlock(trim_end(want.text))
                         ELSE want)
             /\ Preserved(SubSeq(ins, k + 1, Len(ins)), Tail(outs))

\* The returned list without the synthetic first message.
WithoutPlaceholder(msgs, out) ==
    IF msgs # <<>> /\ msgs[1].role = "assistant"
           /\ out # <<>> /\ out[1] = Placeholder
    THEN Tail(out)
    ELSE out

\* C30: process_messages loses and reorders no non-empty content: the
\* non-empty items of the non-empty input messages are the non-empty items
\* of the output without its placeholder, in the same order and under the
\* same roles, changed only by the newline joins of merged bare texts and
\* by the trailing trim in a closing Assistant message.
C30_ContentPreserved ==
    pc = "done" =>
        Preserved(NonEmptyItems(SelectSeq(messages, LAMBDA m : ~is_all_empty(m))),
                  NonEmptyItems(WithoutPlaceholder(messages, filtered)))

\* A blank first Assistant message, then two Assistant messages that are
\* merged: the output is the placeholder and one Assistant message whose
\* items are those of the two, in order.
C30_Witness ==
    /\ pc = "done"
    /\ Len(messages) = 3
    /\ messages[1].role = "assistant" /\ is_all_empty(messages[1])
    /\ messages[2].role = "assistant" /\ messages[2].content.kind = "Blocks"
    /\ messages[3].role = "assistant" /\ messages[3].content.kind = "Text"
    /\ ~is_all_empty(messages[2]) /\ ~is_all_empty(messages[3])
    /\ \E i \in 1..Len(messages[2].content.blocks) :
           ContentBlock_is_empty(messages[2].content.blocks[i])
    /\ messages[3].content.text # trim_end(messages[3].content.text)
    /\ Len(filtered) = 2
    /\ filtered[1] = Placeholder
    /\ Len(NonEmptyItems(WithoutPlaceholder(messages, filtered))) >= 2

--------------------------------------------------------------------------
(* get_function_tool: await-openai/src/tools.rs *)

\* Most calls of get_function_tool in one run of the process.
MaxToolCalls == 3

\* serde_json::to_value(into_root_schema_for::<T>()) for the types T the
\* calls name, as maps from member name to value: the MyStruct of the
\* tests, a second struct with definitions, the enum UnitEnum (a schema of
\* type string) and an untagged enum (a schema without a type).
RootSchemas ==
    [MyStruct |->
         ("$schema" :> "http://json-schema.org/draft-07/schema#")
         @@ ("title" :> "MyStruct")
         @@ ("type" :> "object")
         @@ ("properties" :> [location |-> "string", unit |-> "string"])
         @@ ("required" :> <<"location">>),
     Clock |->
         ("$schema" :> "http://json-schema.org/draft-07/schema#")
         @@ ("title" :> "Clock")
         @@ ("type" :> "object")
         @@ ("properties" :> [zone |-> "string"])
         @@ ("required" :> <<"zone">>)
         @@ ("definitions" :> [Zone |-> "string"]),
     UnitEnum |->
         ("$schema" :> "http://json-schema.org/draft-07/schema#")
         @@ ("title" :> "UnitEnum")
         @@ ("type" :> "string")
         @@ ("enum" :> <<"celsius", "fahrenheit">>),
     Either |->
         ("$schema" :> "http://json-schema.org/draft-07/schema#")
         @@ ("title" :> "Either")
         @@ ("anyOf" :> <<"string", "integer">>)]

\* parse_function_param::<T>()
parse_function_param(T) ==
    LET schema_value == RootSchemas[T]
    IN  IF "type" \notin DOMAIN schema_value
        THEN [ok |-> FALSE, error |-> "Require json schema type"]
        ELSE IF schema_value["type"] # "object"
        THEN [ok |-> FALSE, error |-> "Require json schema type object"]
        ELSE [ok |-> TRUE,
              value |-> [k \in (DOMAIN schema_value)
                                   \ {"$schema", "title", "definitions"} |->
                             schema_value[k]]]

\* get_function_tool::<T>(name, desc) on the cell: OnceLock::get_or_init
\* runs the closure only while the cell is unset, and returns a reference to
\* what the cell holds. The static is declared inside a generic function, so
\* it is one item for every T.
get_function_tool(cell, T, name, desc) ==
    IF cell # None
    THEN [cell |-> cell, ret |-> cell[1]]
    ELSE LET schema_value == parse_function_param(T)
             made == IF ~schema_value.ok THEN schema_value
                     ELSE [ok |-> TRUE,
                           value |-> [type |-> "function",
                                      function |->
                                          [name |-> name,
                                           description |-> desc,
                                           parameters |-> Some(schema_value.value)]]]
         IN  [cell |-> Some(made), ret |-> made]

\* One call of get_function_tool::<T>(name, desc).
GetFunctionTool ==
    /\ Len(requested) < MaxToolCalls
    /\ \E T \in DOMAIN RootSchemas :
       \E name \in {"get_weather", "get_time"} :
       \E desc \in {None, Some("Look it up")} :
           LET r == get_function_tool(FUNCTION_TOOL, T, name, desc)
           IN  /\ FUNCTION_TOOL' = r.cell
               /\ requested' = Append(requested,
                                      [T |-> T, name |-> name, desc |-> desc])
               /\ handed' = Append(handed, r.ret)
    /\ UNCHANGED <<input, output, normVars, parserVars, twoVars>>

InitFunctionTool ==
    /\ NormIdle
    /\ ParserFresh
    /\ TwoFresh
    /\ FnIdle
    /\ pool = {}

SpecFunctionTool == InitFunctionTool /\ [][GetFunctionTool]_vars

\* C31: every call of get_function_tool::<T>(name, desc) whose T has an
\* object schema returns a tool whose function name and description are
\* the ones passed to that call and whose parameters are the schema of that
\* call's T, whatever the calls before it asked for.
C31_ToolOfThisCall ==
    \A i \in 1..Len(requested) :
        parse_function_param(requested[i].T).ok =>
            /\ handed[i].ok
            /\ handed[i].value.function.name = requested[i].name
            /\ handed[i].value.function.description = requested[i].desc
            /\ handed[i].value.function.parameters =
                   Some(parse_function_param(requested[i].T).value)

====
